---- MODULE Spec2Model ----
(***************************************************************************)
(* A model of the tbdc backend: the Zoho credential lifecycle manager      *)
(* (app/services/zoho/token_manager.py), the CRM client that consumes it   *)
(* (app/services/zoho/crm_service.py), the LLM analysis services and the   *)
(* DynamoDB analysis caches with the request handlers that sequence them.  *)
(*                                                                         *)
(* asyncio runs one coroutine at a time and switches only at an await that *)
(* suspends, so every action below is the code between two such awaits.    *)
(* Time is in seconds; the clock moves only in Tick.                       *)
(***************************************************************************)
EXTENDS Integers, Sequences, FiniteSets, TLC

(***************************************************************************)
(* Bounds of the model.                                                    *)
(***************************************************************************)
MaxTime == 180
MaxExchanges == 3

\* enrichment requests started in one run
MaxRequests == 3

\* the granularity of the clock, in seconds
TickSteps == {60}

\* coroutines that call get_access_token() (the middleware, one per request)
Clients == {"c1", "c2"}

\* the coroutine inside a ZohoCRMService call
Requesters == {"r1"}

\* "close" is the coroutine that runs close() at shutdown
Procs == Clients \cup Requesters \cup {"init", "loop", "close"}

(***************************************************************************)
(* Program constants.                                                      *)
(***************************************************************************)
ZOHO_TOKEN_REFRESH_BUFFER == 300
DEFAULT_EXPIRES_IN == 3600
RETRY_DELAY == 60

\* DealAnalysis.fit_score / LeadAnalysis.fit_score: ge, le and the default
FIT_SCORE_MIN == 1
FIT_SCORE_MAX == 10
DEFAULT_FIT_SCORE == 5

\* None, for the token (tokens are numbered from 1) and for the expiry
NoToken == 0
NoExpiry == -1

\* the expires_in values the token endpoint answers with, besides leaving it out
ExpiresInValues == {300, 360}

VARIABLES
    \* ---- ZohoTokenManager ----
    access_token,     \* self._access_token: NoToken or the number of the exchange that produced it
    token_expiry,     \* self._token_expiry: NoExpiry or a time
    api_domain,       \* self._api_domain
    lock,             \* self._lock: "free" or the coroutine holding it
    lock_waiters,     \* the coroutines queued on self._lock, in arrival order
    configured,       \* settings.ZOHO_REFRESH_TOKEN is set
    pc,               \* where each coroutine is
    loop_wake,        \* the time the sleeping refresh_loop wakes at
    now,              \* datetime.utcnow()
    exchanges,        \* token-endpoint POSTs issued so far
    \* ---- ZohoCRMService ----
    req,              \* per requester: the CRM call it is in
    \* ---- observations of the run, read by the properties only ----
    call,             \* per client: what its get_access_token() call saw and did
    lastExch,         \* the last finished exchange
    loopNotBefore,    \* the earliest time the scheduler's next exchange is due
    loopLast,         \* how the scheduler's last exchange ended
    initResult,       \* how initialize() ended
    \* ---- DealAnalysisService / LeadAnalysisService ----
    an_in,            \* the arguments and collaborators' behaviour of one analyze call
    an_out,           \* what the call returned or raised
    response,         \* the generator's text given to one _parse_response call
    parse_out,        \* what that call did with it
    \* ---- LeadAnalysisCache / DealAnalysisCache ----
    cache_enabled,    \* is_enabled: DYNAMODB_ENABLED and the AWS keys are set
    table_checked,    \* per cache: self._table_checked
    store,            \* the items of the two tables, by key
    saved,            \* per key: the arguments of the last save_analysis() that returned True
    lastGet,          \* the last get_cached_data() call and what it returned
    \* ---- the endpoints get_lead, get_deal, evaluate_website ----
    rq,               \* per handler: the request it is serving
    hist,             \* per key: generations so far, and what has happened to the key
    bedrock_configured, \* bedrock_service.is_configured
    requests          \* requests started so far

credVars == <<access_token, token_expiry, api_domain>>
lockVars == <<lock, lock_waiters>>
loopObs == <<loopNotBefore, loopLast>>

tokenVars == <<access_token, token_expiry, api_domain, lock, lock_waiters, configured,
               pc, loop_wake, now, exchanges, call, lastExch, loopNotBefore, loopLast,
               initResult>>

analysisVars == <<an_in, an_out, response, parse_out>>

\* the state outside the token manager and the CRM service
storeVars == <<cache_enabled, table_checked, store, saved, lastGet>>

enrichVars == <<rq, hist, bedrock_configured, requests>>

pipelineVars == <<analysisVars, storeVars, enrichVars>>

vars == <<tokenVars, req, pipelineVars>>

(***************************************************************************)
(* The token endpoint's answers to one POST.                               *)
(***************************************************************************)
OkOutcomes ==
    {[kind |-> "ok", has_expires_in |-> TRUE, expires_in |-> e, has_api_domain |-> TRUE] :
        e \in ExpiresInValues}
    \cup {[kind |-> "ok", has_expires_in |-> FALSE, expires_in |-> 0, has_api_domain |-> FALSE]}

\* http_status: a status other than 200;  error_key: 200 with an "error" key;
\* network: httpx.RequestError;  not_json: 200 with a body that is not JSON;
\* no_access_token: 200 JSON without "access_token";
\* bad_expires_in: 200 JSON whose "expires_in" is not a number
FailKinds == {"http_status", "error_key", "network", "not_json",
              "no_access_token", "bad_expires_in"}

FailOutcomes ==
    {[kind |-> k, has_expires_in |-> FALSE, expires_in |-> 0, has_api_domain |-> FALSE] :
        k \in FailKinds}

\* without ZOHO_REFRESH_TOKEN the POST carries no refresh token and is never accepted
Outcomes == IF configured THEN OkOutcomes \cup FailOutcomes ELSE FailOutcomes

Fields == [token |-> access_token, api_domain |-> api_domain, expiry |-> token_expiry]

(***************************************************************************)
(* refresh_access_token, from the response to the end of the with block:   *)
(* the fields it leaves and the exception it raises ("none": it returns).  *)
(***************************************************************************)
RefreshResult(o, f, t, id) ==
    CASE o.kind = "http_status" ->
            [fields |-> f, raised |-> "ZohoTokenException"]
      [] o.kind = "error_key" ->
            [fields |-> f, raised |-> "ZohoTokenException"]
      [] o.kind = "network" ->
            [fields |-> f, raised |-> "ZohoTokenException"]
      [] o.kind = "not_json" ->
            \* response.json() raises; only httpx.RequestError is caught
            [fields |-> f, raised |-> "JSONDecodeError"]
      [] o.kind = "no_access_token" ->
            \* data["access_token"]
            [fields |-> f, raised |-> "KeyError"]
      [] o.kind = "bad_expires_in" ->
            \* the token and the domain are assigned before timedelta() raises
            [fields |-> [token |-> id,
                         api_domain |-> "ZOHO_API_BASE_URL",
                         expiry |-> f.expiry],
             raised |-> "TypeError"]
      [] OTHER ->
            [fields |-> [token |-> id,
                         api_domain |-> IF o.has_api_domain THEN "response"
                                        ELSE "ZOHO_API_BASE_URL",
                         expiry |-> t + (IF o.has_expires_in THEN o.expires_in
                                         ELSE DEFAULT_EXPIRES_IN)],
             raised |-> "none"]

\* a freshness test that also accepts an expiry exactly the buffer away
TokenIsFresh_AtBuffer(tok, exp, t) ==
    /\ tok # NoToken
    /\ exp # NoExpiry
    /\ t <= exp - ZOHO_TOKEN_REFRESH_BUFFER

(***************************************************************************)
(* get_access_token: the cached token is returned when both fields are set *)
(* and the expiry is more than the buffer away.                            *)
(***************************************************************************)
TokenIsFresh(tok, exp, t) ==
    /\ tok # NoToken
    /\ exp # NoExpiry
    /\ t < exp - ZOHO_TOKEN_REFRESH_BUFFER

\* a scheduler that never sleeps before a refresh
WaitSeconds_None(exp, t) == 0

(***************************************************************************)
(* refresh_loop: the seconds it sleeps before the next refresh (0: none).  *)
(***************************************************************************)
WaitSeconds(exp, t) ==
    IF exp # NoExpiry /\ (exp - ZOHO_TOKEN_REFRESH_BUFFER) - t > 0
    THEN (exp - ZOHO_TOKEN_REFRESH_BUFFER) - t
    ELSE 0

\* what one get_access_token() call saw and did
\*   due:     at its check no credential was stored, or the expiry was within the buffer
\*   path:    "cached" or "refresh", the branch the call took
\*   posts:   the POSTs the call issued
\*   ret:     the token it returned (NoToken: none yet, or it raised)
\*   margin_ok: at the return the credential's expiry was more than the buffer away
\*   race:    the clients that were inside refresh_access_token() when this call checked
NoCall == [due |-> FALSE, path |-> "none", posts |-> 0, ret |-> NoToken,
           margin_ok |-> FALSE, raised |-> "none", race |-> {}]

\* the last finished exchange
\*   ok:       HTTP 200 and no error key, with access_token and a numeric or absent expires_in
\*   raised:   the exception refresh_access_token() ended with ("none": it returned)
\*   changed:  token, api_domain or expiry differ from before the exchange
\*   expiry_now_plus: the expiry is the time of the response plus expires_in (3600 if absent)
NoExch == [done |-> FALSE, ok |-> FALSE, raised |-> "none", changed |-> FALSE,
           expiry_now_plus |-> FALSE]

Exch(o, r, f, t) ==
    [done |-> TRUE,
     ok |-> (o.kind = "ok"),
     raised |-> r.raised,
     changed |-> (r.fields # f),
     expiry_now_plus |-> (r.fields.expiry =
                            t + (IF o.has_expires_in THEN o.expires_in ELSE DEFAULT_EXPIRES_IN))]

\* one CRM call
\*   op:      "record" (get_lead_by_id, get_deal_by_id), "contact" (get_contact_by_id),
\*            "list" (get_lead_attachments, get_deal_attachments),
\*            "download" (download_attachment, download_deal_attachment)
\*   stage:   which await of the call is pending
\*   sent:    HTTP requests sent to the CRM
\*   forced:  refresh_access_token() calls made because of a 401
\*   posts:   token-endpoint POSTs the call issued
\*   first:   the status of the first response ("none" before it)
\*   result:  "none" while running, else what the caller got
NoReq == [op |-> "none", stage |-> "none", sent |-> 0, forced |-> 0, posts |-> 0,
          first |-> "none", result |-> "none"]

\* one analyze call: the service, the prompt templates in force and what the
\* generator answers to the first and the second invocation
NoInput == [service |-> "none", template |-> "none", scoring_template |-> "none",
            r1 |-> "none", r2 |-> "none"]

\* the outcome of one analyze call
\*   raised:   the exception that reached the caller ("none": the call returned)
\*   valid:    the returned object passed the schema's validation
\*   failed:   a generator call failed or gave an unusable answer, or a prompt
\*             template could not be formatted
\*   pricing:  the pricing_summary of the returned analysis
NoPricing == [present |-> FALSE, recommended_services |-> <<>>, total_cost_eur |-> 0]

NoResult == [done |-> FALSE, raised |-> "none", valid |-> FALSE, fit_score |-> 0,
             confidence_level |-> "none", has_reason |-> FALSE, failed |-> FALSE,
             pricing |-> NoPricing]

(***************************************************************************)
(* The analysis caches.  get_lead keeps its records in the lead cache      *)
(* under the lead id, evaluate_website in the lead cache under             *)
(* web_{domain}, get_deal in the deal cache under the deal id.             *)
(***************************************************************************)
CacheKeys == {"lead_1", "web_a", "deal_1"}

Caches == {"leads", "deals"}

CacheOf(k) == IF k = "deal_1" THEN "deals" ELSE "leads"

\* the coroutines serving enrichment requests
Handlers == {"h1", "h2"}

\* an optional list argument: None or a list
NoneArg == [some |-> FALSE, list |-> <<>>]

ListArg(l) == [some |-> TRUE, list |-> l]

\* the empty analysis object and the empty JSON document, where no value is held
NoAnalysis == [cls |-> "none", company_name |-> "", fit_score |-> 0, customers |-> <<>>]

NoJson == <<"json", <<>>>>

\* no item under the key
NoItem == [present |-> FALSE, attrs |-> {}, analysis |-> NoJson,
           marketing_materials |-> NoJson, similar_customers |-> NoJson, meetings |-> NoJson,
           company_name |-> "", fit_score |-> 0, created_at |-> 0, updated_at |-> 0]

\* the last save_analysis() that returned True
\*   by:        "save_analysis" or "update_analysis", the method called
\*   replaced:  an item was already stored under the key, and every part of it
\*              (analysis, materials, similar customers, meetings) differed from
\*              the part written over it
NoSave == [written |-> FALSE, analysis |-> NoAnalysis, marketing_materials |-> NoneArg,
           similar_customers |-> NoneArg, meetings |-> NoneArg, by |-> "none",
           replaced |-> FALSE]

\* get_cached_data returned None
Miss == [hit |-> FALSE, arity |-> 0, analysis |-> NoAnalysis, marketing_materials |-> <<>>,
         similar_customers |-> <<>>, meetings |-> <<>>]

NoGet == [done |-> FALSE, key |-> "none", read_ok |-> FALSE, result |-> Miss]

\* one request
\*   kind:   "lead" (get_lead), "deal" (get_deal), "web" (evaluate_website)
\*   mode:   "normal", "refresh" (refresh_analysis) or "skip" (skip_analysis)
\*   stage:  "idle", "fetch" (awaiting the CRM record), "gather" (awaiting the
\*           attachments or the scrape), "lookup" (awaiting the contact or the
\*           page text), "done"
\*   status: the HTTP status of the response (0 before it)
\*   steps:  the steps of the pipeline finished so far, in the order they ran
\*   side_failure: "none", "collaborator" (a side-source failed and its
\*           contribution was left empty) or "credential" (the failure left
\*           empty was a credential error)
NoRq == [kind |-> "none", key |-> "none", mode |-> "none", stage |-> "idle", status |-> 0,
         from_cache |-> FALSE, generated |-> FALSE, steps |-> <<>>, side_failure |-> "none"]

\* what has happened to a key
\*   gens:       calls of the generation step for it
\*   refreshed:  a request for it set refresh_analysis
\*   overlapped: a request for it started while another one for it was in flight
\*   faulted:    a cache read or write for it failed
NoHist == [gens |-> 0, refreshed |-> FALSE, overlapped |-> FALSE, faulted |-> FALSE]

StoreEmpty ==
    /\ table_checked = [c \in Caches |-> FALSE]
    /\ store = [k \in CacheKeys |-> NoItem]
    /\ saved = [k \in CacheKeys |-> NoSave]
    /\ lastGet = NoGet

EnrichIdle ==
    /\ rq = [h \in Handlers |-> NoRq]
    /\ hist = [k \in CacheKeys |-> NoHist]
    /\ requests = 0

TokenInit ==
    /\ access_token = NoToken
    /\ token_expiry = NoExpiry
    /\ api_domain = "None"
    /\ lock = "free"
    /\ lock_waiters = <<>>
    /\ configured \in BOOLEAN
    /\ pc = [p \in Procs |-> IF p = "init" THEN "start" ELSE IF p = "loop" THEN "off" ELSE "idle"]
    /\ loop_wake = 0
    /\ now = 0
    /\ exchanges = 0
    /\ call = [c \in Clients |-> NoCall]
    /\ lastExch = NoExch
    /\ loopNotBefore = 0
    /\ loopLast = "none"
    /\ initResult = "pending"
    /\ req = [r \in Requesters |-> NoReq]

\* the outcome of one _parse_response call
\*   step:     1 json.loads(response) succeeded, 2 the text from the first { to
\*             the last } parsed, 3 the repaired text parsed, 0 default data
\*   repaired: what _repair_truncated_json made of the text from the first {
\*   repaired_parses: json.loads accepts the repaired text
NoParse == [done |-> FALSE, step |-> 0, repaired |-> <<>>, repaired_parses |-> FALSE]

\* no _parse_response call is in progress
ParseIdle ==
    /\ response = [doc |-> "none", offset |-> 0, text |-> <<>>]
    /\ parse_out = NoParse

\* no analyze call is in progress
AnalysisIdle ==
    /\ an_in = NoInput
    /\ an_out = NoResult
    /\ ParseIdle

\* the token manager and the CRM service at rest
TokenQuiet == TokenInit /\ configured

\* the caches and the endpoints at rest
PipelineIdle ==
    /\ AnalysisIdle
    /\ cache_enabled = TRUE
    /\ StoreEmpty
    /\ bedrock_configured = TRUE
    /\ EnrichIdle

(***************************************************************************)
(* async with self._lock: a coroutine queues on the lock, the head of the  *)
(* queue takes it when it is free and issues the POST.                     *)
(***************************************************************************)
\* a refresh that does not wait for the lock to be free
Acquire_Unlocked(p) ==
    /\ pc[p] = "want_lock"
    /\ lock_waiters # <<>>
    /\ Head(lock_waiters) = p
    /\ exchanges < MaxExchanges
    /\ lock' = p
    /\ lock_waiters' = Tail(lock_waiters)
    /\ exchanges' = exchanges + 1
    /\ pc' = [pc EXCEPT ![p] = "posting"]
    /\ call' = IF p \in Clients THEN [call EXCEPT ![p].posts = @ + 1] ELSE call
    /\ req' = IF p \in Requesters THEN [req EXCEPT ![p].posts = @ + 1] ELSE req
    /\ UNCHANGED pipelineVars
    /\ UNCHANGED <<credVars, configured, loop_wake, now, lastExch, loopObs, initResult>>

Acquire(p) ==
    /\ pc[p] = "want_lock"
    /\ lock = "free"
    /\ lock_waiters # <<>>
    /\ Head(lock_waiters) = p
    /\ exchanges < MaxExchanges
    /\ lock' = p
    /\ lock_waiters' = Tail(lock_waiters)
    /\ exchanges' = exchanges + 1
    /\ pc' = [pc EXCEPT ![p] = "posting"]
    /\ call' = IF p \in Clients THEN [call EXCEPT ![p].posts = @ + 1] ELSE call
    /\ req' = IF p \in Requesters THEN [req EXCEPT ![p].posts = @ + 1] ELSE req
    /\ UNCHANGED pipelineVars
    /\ UNCHANGED <<credVars, configured, loop_wake, now, lastExch, loopObs, initResult>>

\* the end of the with block in refresh_access_token(): the fields as the
\* exchange leaves them, and the lock released
ExchangeEffect(o, r) ==
    /\ access_token' = r.fields.token
    /\ api_domain' = r.fields.api_domain
    /\ token_expiry' = r.fields.expiry
    /\ lock' = "free"
    /\ lastExch' = Exch(o, r, Fields, now)

\* initialize(): with ZOHO_REFRESH_TOKEN set it awaits refresh_access_token()
InitStart ==
    /\ pc["init"] = "start"
    /\ IF configured
       THEN /\ pc' = [pc EXCEPT !["init"] = "want_lock"]
            /\ lock_waiters' = Append(lock_waiters, "init")
            /\ UNCHANGED initResult
       ELSE /\ pc' = [pc EXCEPT !["init"] = "done"]
            /\ initResult' = "inactive"
            /\ UNCHANGED lock_waiters
    /\ UNCHANGED pipelineVars
    /\ UNCHANGED <<credVars, lock, configured, loop_wake, now, exchanges, call, lastExch,
                   loopObs, req>>

\* the response of the exchange initialize() awaits: on success the scheduler
\* task is created, on any exception initialize() logs a warning and returns
InitRespond(o) ==
    /\ pc["init"] = "posting"
    /\ LET r == RefreshResult(o, Fields, now, exchanges) IN
        /\ ExchangeEffect(o, r)
        /\ IF r.raised = "none"
           THEN /\ pc' = [pc EXCEPT !["init"] = "done", !["loop"] = "created"]
                /\ initResult' = "refreshed"
                /\ loopNotBefore' = r.fields.expiry - ZOHO_TOKEN_REFRESH_BUFFER
           ELSE /\ pc' = [pc EXCEPT !["init"] = "done"]
                /\ initResult' = "failed"
                /\ UNCHANGED loopNotBefore
    /\ UNCHANGED pipelineVars
    /\ UNCHANGED <<lock_waiters, configured, loop_wake, now, exchanges, call, loopLast, req>>

\* the top of refresh_loop's while body: sleep until the refresh is due, or refresh at once
LoopTop(exp, t) ==
    IF WaitSeconds(exp, t) > 0
    THEN /\ pc' = [pc EXCEPT !["loop"] = "sleep"]
         /\ loop_wake' = t + WaitSeconds(exp, t)
         /\ UNCHANGED lock_waiters
    ELSE /\ pc' = [pc EXCEPT !["loop"] = "want_lock"]
         /\ UNCHANGED loop_wake
         /\ lock_waiters' = Append(lock_waiters, "loop")

\* the task created by _start_background_refresh runs for the first time
LoopStart ==
    /\ pc["loop"] = "created"
    /\ LoopTop(token_expiry, now)
    /\ UNCHANGED pipelineVars
    /\ UNCHANGED <<credVars, lock, configured, now, exchanges, call, lastExch, loopObs,
                   initResult, req>>

\* asyncio.sleep(wait_seconds) is over: refresh
LoopWake ==
    /\ pc["loop"] = "sleep"
    /\ now >= loop_wake
    /\ pc' = [pc EXCEPT !["loop"] = "want_lock"]
    /\ lock_waiters' = Append(lock_waiters, "loop")
    /\ UNCHANGED pipelineVars
    /\ UNCHANGED <<credVars, lock, configured, loop_wake, now, exchanges, call, lastExch,
                   loopObs, initResult, req>>

\* the response of the scheduler's exchange: on success the loop goes round,
\* on an exception it sleeps RETRY_DELAY seconds
LoopRespond(o) ==
    /\ pc["loop"] = "posting"
    /\ LET r == RefreshResult(o, Fields, now, exchanges) IN
        /\ ExchangeEffect(o, r)
        /\ IF r.raised = "none"
           THEN /\ LoopTop(r.fields.expiry, now)
                /\ loopNotBefore' = r.fields.expiry - ZOHO_TOKEN_REFRESH_BUFFER
                /\ loopLast' = "ok"
           ELSE /\ pc' = [pc EXCEPT !["loop"] = "retry_sleep"]
                /\ loop_wake' = now + RETRY_DELAY
                /\ loopNotBefore' = now + RETRY_DELAY
                /\ loopLast' = "failed"
                /\ UNCHANGED lock_waiters
    /\ UNCHANGED pipelineVars
    /\ UNCHANGED <<configured, now, exchanges, call, initResult, req>>

\* asyncio.sleep(60) is over: the loop goes round
LoopRetryWake ==
    /\ pc["loop"] = "retry_sleep"
    /\ now >= loop_wake
    /\ LoopTop(token_expiry, now)
    /\ UNCHANGED pipelineVars
    /\ UNCHANGED <<credVars, lock, configured, now, exchanges, call, lastExch, loopObs,
                   initResult, req>>

\* the condition the specification gives for a refresh: no credential is stored,
\* or the stored one expires within the buffer
RefreshDue ==
    \/ access_token = NoToken
    \/ token_expiry = NoExpiry
    \/ token_expiry - now <= ZOHO_TOKEN_REFRESH_BUFFER

\* the expiry is more than the buffer away
MarginOk(exp, t) == exp # NoExpiry /\ exp - t > ZOHO_TOKEN_REFRESH_BUFFER

\* requests are served once the lifespan startup is over and the scheduler
\* task, if one was created, has had its first turn
Serving == pc["init"] = "done" /\ pc["loop"] # "created"

\* get_access_token(): return the cached token or go to refresh_access_token()
GetAccessToken(c) ==
    /\ Serving
    /\ pc[c] = "idle"
    /\ LET seen == [NoCall EXCEPT !.due = RefreshDue]
       IN IF TokenIsFresh(access_token, token_expiry, now)
          THEN /\ pc' = [pc EXCEPT ![c] = "done"]
               /\ call' = [call EXCEPT ![c] =
                              [seen EXCEPT !.path = "cached",
                                           !.ret = access_token,
                                           !.margin_ok = MarginOk(token_expiry, now)]]
               /\ UNCHANGED lock_waiters
          ELSE /\ pc' = [pc EXCEPT ![c] = "want_lock"]
               /\ lock_waiters' = Append(lock_waiters, c)
               /\ call' = [call EXCEPT ![c] =
                              [seen EXCEPT !.path = "refresh",
                                           !.race = {d \in Clients \ {c} :
                                                       pc[d] \in {"want_lock", "posting"}}]]
    /\ UNCHANGED pipelineVars
    /\ UNCHANGED <<credVars, lock, configured, loop_wake, now, exchanges, lastExch, loopObs,
                   initResult, req>>

\* the response of the exchange a get_access_token() call awaits
ClientRespond(c, o) ==
    /\ pc[c] = "posting"
    /\ LET r == RefreshResult(o, Fields, now, exchanges) IN
        /\ ExchangeEffect(o, r)
        /\ pc' = [pc EXCEPT ![c] = "done"]
        /\ call' = [call EXCEPT ![c] =
                      IF r.raised = "none"
                      THEN [@ EXCEPT !.ret = r.fields.token,
                                     !.margin_ok = MarginOk(r.fields.expiry, now)]
                      ELSE [@ EXCEPT !.raised = r.raised]]
    /\ UNCHANGED pipelineVars
    /\ UNCHANGED <<lock_waiters, configured, loop_wake, now, exchanges, loopObs, initResult,
                   req>>

\* the call is over; the client may call again
ClientReset(c) ==
    /\ pc[c] = "done"
    /\ pc' = [pc EXCEPT ![c] = "idle"]
    /\ call' = [d \in Clients |-> IF d = c THEN NoCall
                                  ELSE [call[d] EXCEPT !.race = @ \ {c}]]
    /\ UNCHANGED pipelineVars
    /\ UNCHANGED <<credVars, lockVars, configured, loop_wake, now, exchanges, lastExch,
                   loopObs, initResult, req>>

Tick ==
    /\ \E d \in TickSteps :
        /\ now + d <= MaxTime
        /\ now' = now + d
    /\ UNCHANGED pipelineVars
    /\ UNCHANGED <<credVars, lockVars, configured, pc, loop_wake, exchanges, call, lastExch,
                   loopObs, initResult, req>>

SchedulerNext ==
    \/ InitStart
    \/ \E o \in Outcomes : InitRespond(o)
    \/ LoopStart
    \/ LoopWake
    \/ \E o \in Outcomes : LoopRespond(o)
    \/ LoopRetryWake
    \/ Tick

TokenNext ==
    \/ SchedulerNext
    \/ \E p \in Clients \cup {"init", "loop"} : Acquire(p)
    \/ \E c \in Clients : GetAccessToken(c)
    \/ \E c \in Clients, o \in Outcomes : ClientRespond(c, o)
    \/ \E c \in Clients : ClientReset(c)

InitToken == TokenInit /\ PipelineIdle

SpecToken == InitToken /\ [][TokenNext]_vars

(***************************************************************************)
(* Properties of the token manager.                                        *)
(***************************************************************************)

\* C1: when two get_access_token() calls overlap while no credential is stored
\* or the stored one is within the buffer, both return and exactly one of them
\* has issued a POST: the other returns the token that exchange produced.
C1_SingleExchangeUnderContention ==
    \A c \in Clients : \A d \in call[c].race :
        (pc[c] = "done" /\ pc[d] = "done" /\ call[c].ret # NoToken /\ call[d].ret # NoToken)
            => /\ call[c].posts + call[d].posts = 1
               /\ call[c].ret = call[d].ret

\* C2: a token returned by get_access_token() belongs to a credential whose
\* expiry is, at the return, more than the buffer away.
C2_ReturnedTokenOutsideBuffer ==
    \A c \in Clients :
        (pc[c] = "done" /\ call[c].ret # NoToken) => call[c].margin_ok

\* C3: get_access_token() goes to a refresh exchange exactly when no credential
\* is stored or the stored one expires within the buffer (boundary included);
\* otherwise it returns the cached token without any POST.
C3_RefreshIffDue ==
    \A c \in Clients :
        call[c].path # "none" =>
            /\ (call[c].path = "refresh") <=> call[c].due
            /\ call[c].path = "cached" =>
                  (pc[c] = "done" /\ call[c].posts = 0 /\ call[c].ret # NoToken)
            /\ (call[c].path = "refresh" /\ pc[c] = "done") => call[c].posts = 1

\* one call returned the cached token while another, made when the refresh was
\* due, went through an exchange
C3_Witness ==
    \E c, d \in Clients :
        /\ call[c].path = "cached" /\ ~call[c].due
        /\ call[d].path = "refresh" /\ call[d].due /\ pc[d] = "done" /\ call[d].ret # NoToken

\* C4: an exchange that succeeds replaces the credential with expiry = now +
\* expires_in (3600 by default); one that fails in any way (status, error key,
\* network, malformed body) raises ZohoTokenException and changes no field.
C4_ExchangeAllOrNothing ==
    lastExch.done =>
        /\ lastExch.ok => (lastExch.raised = "none" /\ lastExch.expiry_now_plus)
        /\ ~lastExch.ok => (lastExch.raised = "ZohoTokenException" /\ ~lastExch.changed)

\* C5: the scheduler issues its next exchange no earlier than expiry - buffer
\* after a successful refresh, and no earlier than RETRY_DELAY seconds after a
\* failed one.
C5_SchedulerWaits ==
    pc["loop"] \in {"want_lock", "posting"} => now >= loopNotBefore

\* the scheduler is in an exchange after one of its own exchanges failed and the
\* retry delay has passed
C5_Witness ==
    /\ pc["loop"] = "posting"
    /\ loopLast = "failed"
    /\ loopNotBefore > 0
    /\ now >= loopNotBefore

\* C28: when an exchange of the scheduler is over, the scheduler sleeps for a
\* positive time before it goes to its next exchange, whatever expires_in the
\* token endpoint returned.
C28_SleepBetweenExchanges ==
    [][(pc["loop"] = "posting" /\ pc'["loop"] # "posting") =>
          (pc'["loop"] \in {"sleep", "retry_sleep"} /\ loop_wake' > now')]_vars

\* C6: once initialize() is over with the configuration present, the scheduler
\* has been started (so that a failed initial refresh is retried by it); with
\* the configuration absent neither a refresh nor the scheduler happens.
C6_InitializeStartsScheduler ==
    pc["init"] = "done" =>
        IF configured
        THEN pc["loop"] # "off"
        ELSE pc["loop"] = "off" /\ initResult = "inactive"

(***************************************************************************)
(* close(): the scheduler task is cancelled and awaited.  The task gets    *)
(* CancelledError at the await it is suspended in.  Inside the try block   *)
(* (the sleep before a refresh, the lock, the exchange) the loop's except  *)
(* clause catches it and breaks; in the retry sleep, which is inside the   *)
(* except Exception handler, and before the task's first turn, it ends the *)
(* task as cancelled, and close() catches it from the await.               *)
(***************************************************************************)

\* a cancellation that leaves the lock with the cancelled task
LockAfterCancel_Held(l) == l

\* async with self._lock: __aexit__ releases the lock when CancelledError
\* passes through the block
LockAfterCancel(l) == IF l = "loop" THEN "free" ELSE l

\* the scheduler task between cancel() and its next turn
Cancelling == {"cancel_unstarted", "cancel_in_try", "cancel_in_handler"}

\* the scheduler task is over, or there never was one
LoopOver == pc["loop"] \in {"off", "stopped", "cancelled"}

\* close() is called at shutdown: self._refresh_task.cancel(), then the task
\* is awaited; without a task the HTTP client is closed at once
Close ==
    /\ pc["init"] = "done"
    /\ pc["close"] = "idle"
    /\ pc' = IF pc["loop"] = "off"
             THEN [pc EXCEPT !["close"] = "done"]
             ELSE [pc EXCEPT !["close"] = "awaiting",
                             !["loop"] = CASE @ = "created" -> "cancel_unstarted"
                                           [] @ = "retry_sleep" -> "cancel_in_handler"
                                           [] OTHER -> "cancel_in_try"]
    /\ UNCHANGED pipelineVars
    /\ UNCHANGED <<credVars, lockVars, configured, loop_wake, now, exchanges, call, lastExch,
                   loopObs, initResult, req>>

\* the cancelled task has its turn: it leaves the queue of the lock or gives
\* the lock back, and ends
LoopCancelled ==
    /\ pc["loop"] \in Cancelling
    /\ lock' = LockAfterCancel(lock)
    /\ lock_waiters' = SelectSeq(lock_waiters, LAMBDA p : p # "loop")
    /\ pc' = [pc EXCEPT !["loop"] = IF @ = "cancel_in_try" THEN "stopped" ELSE "cancelled"]
    /\ UNCHANGED pipelineVars
    /\ UNCHANGED <<credVars, configured, loop_wake, now, exchanges, call, lastExch, loopObs,
                   initResult, req>>

\* await self._refresh_task is over; the HTTP client is closed
CloseDone ==
    /\ pc["close"] = "awaiting"
    /\ pc["loop"] \in {"stopped", "cancelled"}
    /\ pc' = [pc EXCEPT !["close"] = "done"]
    /\ UNCHANGED pipelineVars
    /\ UNCHANGED <<credVars, lockVars, configured, loop_wake, now, exchanges, call, lastExch,
                   loopObs, initResult, req>>

\* the request in flight at shutdown
LastClient == "c1"

ShutdownNext ==
    \/ SchedulerNext
    \/ \E p \in {LastClient, "init", "loop"} : Acquire(p)
    \/ GetAccessToken(LastClient)
    \/ \E o \in Outcomes : ClientRespond(LastClient, o)
    \/ ClientReset(LastClient)
    \/ Close
    \/ LoopCancelled
    \/ CloseDone

\* the event loop gives every ready task its turn
SpecShutdown ==
    /\ InitToken
    /\ [][ShutdownNext]_vars
    /\ WF_vars(LoopCancelled)
    /\ WF_vars(CloseDone)

\* C21: close() terminates from every state the scheduler can be in, and once
\* it is over the scheduler task has ended (it issues no further exchange),
\* it is not queued on the refresh lock and the lock is not held by it.
C21_CloseCancelsCleanly ==
    /\ [](pc["close"] = "done" =>
            /\ LoopOver
            /\ lock # "loop"
            /\ \A i \in 1 .. Len(lock_waiters) : lock_waiters[i] # "loop")
    /\ (pc["close"] = "awaiting" ~> pc["close"] = "done")

\* close() is over after cancelling the scheduler in its retry delay
C21_Witness ==
    /\ pc["close"] = "done"
    /\ pc["loop"] = "cancelled"
    /\ loopLast = "failed"

(***************************************************************************)
(* ZohoCRMService.  _make_request carries record, contact and listing      *)
(* calls; the two download methods talk to the CRM themselves.             *)
(***************************************************************************)
CrmOps == {"record", "contact", "list", "download"}

\* the CRM's answers to one HTTP request ("network": httpx.RequestError)
CrmStatuses == {"200", "401", "429", "500", "network"}

\* what the caller of the CRM method gets when exception e is raised inside it:
\* the listing and download methods catch every Exception
Raised(op, e) ==
    CASE op = "list" -> "empty_list"
      [] op = "download" -> "None"
      [] OTHER -> e

\* the request goes out with the Authorization header just built
SendRequest(r, q) ==
    /\ pc' = [pc EXCEPT ![r] = "http"]
    /\ req' = [req EXCEPT ![r] = [q EXCEPT !.stage = "http", !.sent = @ + 1]]
    /\ UNCHANGED lock_waiters

\* the call goes to refresh_access_token() and queues on the lock
QueueRefresh(r, q, stage) ==
    /\ pc' = [pc EXCEPT ![r] = "want_lock"]
    /\ req' = [req EXCEPT ![r] = [q EXCEPT !.stage = stage]]
    /\ lock_waiters' = Append(lock_waiters, r)

\* the call is over with the given result
Finish(r, q, result) ==
    /\ pc' = [pc EXCEPT ![r] = "done"]
    /\ req' = [req EXCEPT ![r] = [q EXCEPT !.stage = "none", !.result = result]]
    /\ UNCHANGED lock_waiters

\* a CRM method is called: _get_headers() takes the cached token or refreshes
CrmCall(r, op) ==
    /\ Serving
    /\ pc[r] = "idle"
    /\ LET q == [NoReq EXCEPT !.op = op]
       IN IF TokenIsFresh(access_token, token_expiry, now)
          THEN SendRequest(r, q)
          ELSE QueueRefresh(r, q, "headers")
    /\ UNCHANGED pipelineVars
    /\ UNCHANGED <<credVars, lock, configured, loop_wake, now, exchanges, call, lastExch,
                   loopObs, initResult>>

\* the response of a token exchange a CRM call awaits
CrmRefreshRespond(r, o) ==
    /\ pc[r] = "posting"
    /\ LET res == RefreshResult(o, Fields, now, exchanges)
           q == req[r]
       IN /\ ExchangeEffect(o, res)
          /\ IF res.raised # "none"
             THEN Finish(r, q, Raised(q.op, res.raised))
             ELSE IF q.stage = "forced"
                     /\ ~TokenIsFresh(res.fields.token, res.fields.expiry, now)
                  THEN \* _get_headers() after the forced refresh refreshes again
                       QueueRefresh(r, q, "headers")
                  ELSE SendRequest(r, q)
    /\ UNCHANGED pipelineVars
    /\ UNCHANGED <<configured, loop_wake, now, exchanges, call, loopObs, initResult>>

\* the CRM's response to a request sent by _make_request
MakeRequestRespond(r, st) ==
    /\ pc[r] = "http"
    /\ req[r].op \in {"record", "contact", "list"}
    /\ LET q == IF req[r].sent = 1 THEN [req[r] EXCEPT !.first = st] ELSE req[r]
       IN CASE st = "network" -> Finish(r, q, Raised(q.op, "ZohoAPIException"))
            [] st = "429" /\ q.sent = 1 -> Finish(r, q, Raised(q.op, "RateLimitException"))
            [] st = "401" /\ q.sent = 1 ->
                  QueueRefresh(r, [q EXCEPT !.forced = @ + 1], "forced")
            [] st = "200" -> Finish(r, q, IF q.op = "list" THEN "list" ELSE "data")
            [] OTHER -> Finish(r, q, Raised(q.op, "ZohoAPIException"))
    /\ UNCHANGED pipelineVars
    /\ UNCHANGED <<credVars, lock, configured, loop_wake, now, exchanges, call, lastExch,
                   loopObs, initResult>>

\* the CRM's response to the GET of a download method
DownloadRespond(r, st) ==
    /\ pc[r] = "http"
    /\ req[r].op = "download"
    /\ LET q == [req[r] EXCEPT !.first = st]
       IN IF st = "200" THEN Finish(r, q, "content") ELSE Finish(r, q, "None")
    /\ UNCHANGED pipelineVars
    /\ UNCHANGED <<credVars, lock, configured, loop_wake, now, exchanges, call, lastExch,
                   loopObs, initResult>>

\* the call is over; the requester may call again
CrmReset(r) ==
    /\ pc[r] = "done"
    /\ pc' = [pc EXCEPT ![r] = "idle"]
    /\ req' = [req EXCEPT ![r] = NoReq]
    /\ UNCHANGED pipelineVars
    /\ UNCHANGED <<credVars, lockVars, configured, loop_wake, now, exchanges, call, lastExch,
                   loopObs, initResult>>

CrmNext ==
    \/ SchedulerNext
    \/ \E p \in Requesters \cup {"init", "loop"} : Acquire(p)
    \/ \E r \in Requesters, op \in CrmOps : CrmCall(r, op)
    \/ \E r \in Requesters, o \in Outcomes : CrmRefreshRespond(r, o)
    \/ \E r \in Requesters, st \in CrmStatuses : MakeRequestRespond(r, st)
    \/ \E r \in Requesters, st \in CrmStatuses : DownloadRespond(r, st)
    \/ \E r \in Requesters : CrmReset(r)

SpecCrm == InitToken /\ [][CrmNext]_vars

\* the coroutines inside an exchange with the token endpoint
InExchange == {p \in Procs : pc[p] = "posting"}

\* C22: at most one refresh exchange is in flight at any time, whoever started
\* it (the scheduler, _get_headers() through get_access_token(), the 401
\* handler of _make_request), the coroutine in it holds the refresh lock, and
\* the credential fields change only in a step of the lock's holder.
C22_ExchangesMutuallyExclusive ==
    /\ [](Cardinality(InExchange) <= 1 /\ \A p \in InExchange : lock = p)
    /\ [][credVars' # credVars => (lock # "free" /\ pc[lock] = "posting")]_vars

\* the 401 handler is in its forced exchange while the scheduler waits for the
\* lock
C22_Witness ==
    /\ pc["r1"] = "posting"
    /\ req["r1"].stage = "forced"
    /\ pc["loop"] = "want_lock"

(***************************************************************************)
(* DealAnalysisService.analyze_deal and LeadAnalysisService.analyze_lead.  *)
(* Both are synchronous: one call is one step.                             *)
(***************************************************************************)

\* the prompt templates, by what str.format(deal_data=...) makes of them:
\*   placeholder:   only the named fields the call supplies
\*   plain:         no braces at all
\*   unknown_field: a field the call does not supply, e.g. an unescaped JSON example
\*   positional:    {} or {0}
\*   stray_brace:   a single { or }
Templates == {"placeholder", "plain", "unknown_field", "positional", "stray_brace"}

\* template.format(...): "ok" or the exception it raises
FormatOutcome(t) ==
    CASE t = "unknown_field" -> "KeyError"
      [] t = "positional" -> "IndexError"
      [] t = "stray_brace" -> "ValueError"
      [] OTHER -> "ok"

FitScores == (FIT_SCORE_MIN - 1) .. (FIT_SCORE_MAX + 1)

\* a JSON value as the services look at it
\*   shape:        object, array, string, number or null
\*   typed:        every field present has the type the schema declares
\*   nested_typed: the entries of revenue_top_5_customers / pricing_summary have the
\*                 types their schemas declare
\*   has_scoring:  the keys scoring_rubric and fit_score are present
\*   has_reason:   notes tells why the analysis failed
\*   pricing_summary: the value under that key (present: the key holds an object)
JsonObject(typed, nested, scoring, fs, conf, reason) ==
    [shape |-> "object", typed |-> typed, nested_typed |-> nested, has_scoring |-> scoring,
     fit_score |-> fs, confidence_level |-> conf, has_reason |-> reason,
     pricing_summary |-> NoPricing]

JsonOther(shape) ==
    [shape |-> shape, typed |-> FALSE, nested_typed |-> FALSE, has_scoring |-> FALSE,
     fit_score |-> 0, confidence_level |-> "none", has_reason |-> FALSE,
     pricing_summary |-> NoPricing]

\* the line items the generator writes: service, quantity, unit price and the
\* total it computed, right or wrong
LineItems ==
    {[service_name |-> "Scout Report", quantity |-> 1, unit_price_eur |-> 4, total_price_eur |-> 4],
     [service_name |-> "Mentor Hours", quantity |-> 2, unit_price_eur |-> 2, total_price_eur |-> 4],
     [service_name |-> "Mentor Hours", quantity |-> 2, unit_price_eur |-> 2, total_price_eur |-> 2],
     [service_name |-> "Office Space", quantity |-> 3, unit_price_eur |-> 0, total_price_eur |-> 5]}

\* the pricing summaries the generator writes: no, one or two line items and a
\* total cost that is or is not the sum of anything
PricingSummaries ==
    {[present |-> TRUE, recommended_services |-> sv, total_cost_eur |-> tc] :
        sv \in {<<>>} \cup {<<a>> : a \in LineItems}
                \cup {<<a, b>> : a \in {x \in LineItems : x.service_name = "Scout Report"},
                                b \in LineItems},
        tc \in {0, 8}}

\* a complete analysis object with a pricing summary
PricedValues ==
    {[JsonObject(TRUE, TRUE, TRUE, DEFAULT_FIT_SCORE, "High", FALSE)
        EXCEPT !.pricing_summary = ps] : ps \in PricingSummaries}

ObjectValues ==
    {JsonObject(TRUE, TRUE, TRUE, fs, "High", FALSE) : fs \in FitScores}
    \cup {JsonObject(FALSE, TRUE, TRUE, DEFAULT_FIT_SCORE, "High", FALSE),
          JsonObject(TRUE, FALSE, TRUE, DEFAULT_FIT_SCORE, "Medium", FALSE),
          JsonObject(TRUE, TRUE, FALSE, DEFAULT_FIT_SCORE, "Medium", FALSE)}

OtherValues == {JsonOther(sh) : sh \in {"array", "string", "number", "null"}}

\* what invoke_claude does: it raises (timeout, error), or returns text that is
\* empty, not JSON, a JSON document, or prose around a JSON object
Responses ==
    {[kind |-> k, value |-> JsonOther("null")] : k \in {"timeout", "error", "empty", "non_json"}}
    \cup {[kind |-> "json", value |-> v] : v \in ObjectValues \cup OtherValues \cup PricedValues}
    \cup {[kind |-> "embedded_json", value |-> v] : v \in ObjectValues}

\* _get_default_analysis_data of either service
DefaultAnalysisData == JsonObject(TRUE, TRUE, TRUE, DEFAULT_FIT_SCORE, "Low", TRUE)

\* _get_default_scoring_data
DefaultScoringData == JsonObject(TRUE, TRUE, TRUE, DEFAULT_FIT_SCORE, "none", FALSE)

\* _parse_response of either service: the document itself, the object between the
\* first { and the last }, or the default data
ParseResponse(r) ==
    IF r.kind \in {"json", "embedded_json"} THEN r.value ELSE DefaultAnalysisData

\* DealAnalysis(**data) / LeadAnalysis(**data) accepts the data
Validates(v) ==
    /\ v.shape = "object"
    /\ v.typed
    /\ v.nested_typed
    /\ v.fit_score >= FIT_SCORE_MIN
    /\ v.fit_score <= FIT_SCORE_MAX

Returned(v, failed) ==
    [done |-> TRUE, raised |-> "none", valid |-> Validates(v), fit_score |-> v.fit_score,
     confidence_level |-> v.confidence_level, has_reason |-> v.has_reason, failed |-> failed,
     pricing |-> v.pricing_summary]

\* PricingLineItem(**item): total_price_eur is derived from quantity and
\* unit_price_eur, not taken from the generated text
PricingLineItem(item) ==
    [item EXCEPT !.total_price_eur = item.quantity * item.unit_price_eur]

\* a total that is the one the generator wrote
PricingTotal_Generated(pricing_data, items) == pricing_data.total_cost_eur

\* sum(item.total_price_eur for item in recommended_services)
PricingTotal(pricing_data, items) ==
    LET sum[i \in 0 .. Len(items)] ==
            IF i = 0 THEN 0 ELSE sum[i - 1] + items[i].total_price_eur
    IN sum[Len(items)]

\* analyze_deal: the pricing_summary of the main analysis, its line items
\* converted and its total recalculated; left alone when it is not an object
ConvertPricing(pricing_data) ==
    IF ~pricing_data.present
    THEN pricing_data
    ELSE LET items == [i \in DOMAIN pricing_data.recommended_services |->
                          PricingLineItem(pricing_data.recommended_services[i])]
         IN [pricing_data EXCEPT !.recommended_services = items,
                                 !.total_cost_eur = PricingTotal(pricing_data, items)]

RaisedOut(e) == [NoResult EXCEPT !.done = TRUE, !.raised = e, !.failed = TRUE]

\* _run_main_analysis: the parsed data, or the exception that escapes it
RunMainAnalysis(t, r) ==
    IF FormatOutcome(t) \in {"IndexError", "ValueError"}
    THEN [raised |-> FormatOutcome(t), data |-> JsonOther("null")]
    ELSE IF r.kind \in {"timeout", "error"}
         THEN [raised |-> "none", data |-> DefaultAnalysisData]
         ELSE [raised |-> "none", data |-> ParseResponse(r)]

\* _run_scoring_rubric: the scoring data, or the exception that escapes it
RunScoringRubric(t, main, r) ==
    IF main.shape # "object"
    THEN \* _build_analysis_summary calls analysis_data.get
         [raised |-> "AttributeError", data |-> JsonOther("null")]
    ELSE IF FormatOutcome(t) \in {"IndexError", "ValueError"}
         THEN [raised |-> FormatOutcome(t), data |-> JsonOther("null")]
         ELSE IF r.kind \in {"timeout", "error"}
              THEN [raised |-> "none", data |-> DefaultScoringData]
              ELSE IF ParseResponse(r).shape # "object" \/ ~ParseResponse(r).has_scoring
                   THEN [raised |-> "none", data |-> DefaultScoringData]
                   ELSE [raised |-> "none", data |-> ParseResponse(r)]

\* a generator call whose answer could not be used as it is
Unusable(r) ==
    \/ r.kind \notin {"json", "embedded_json"}
    \/ r.value.shape # "object"
    \/ ~r.value.typed
    \/ ~r.value.nested_typed

\* a merge that takes every key of the scoring data: analysis_data.update(scoring_data)
MergeScoring_Update(analysis_data, scoring_data) ==
    [analysis_data EXCEPT !.fit_score = scoring_data.fit_score,
                          !.typed = analysis_data.typed /\ scoring_data.typed,
                          !.has_scoring = TRUE,
                          !.confidence_level = scoring_data.confidence_level,
                          !.has_reason = scoring_data.has_reason]

\* analyze_deal, "Merge scoring into analysis": scoring_rubric, fit_score and
\* fit_assessment are assigned from the scoring data
MergeScoring(analysis_data, scoring_data) ==
    [analysis_data EXCEPT !.fit_score = scoring_data.fit_score,
                          !.typed = analysis_data.typed /\ scoring_data.typed,
                          !.has_scoring = TRUE]

\* analyze_deal
AnalyzeDealResult(t1, t2, r1, r2) ==
    LET main == RunMainAnalysis(t1, r1)
        scoring == RunScoringRubric(t2, main.data, r2)
        merged == MergeScoring([main.data EXCEPT !.pricing_summary = ConvertPricing(@)],
                               scoring.data)
        failed == \/ Unusable(r1)
                  \/ Unusable(r2)
                  \/ ~r2.value.has_scoring
                  \/ r2.value.fit_score \notin FIT_SCORE_MIN .. FIT_SCORE_MAX
    IN  CASE main.raised # "none" -> RaisedOut(main.raised)
          [] main.data.shape \in {"number", "null"} ->
                \* "revenue_top_5_customers" in analysis_data
                RaisedOut("TypeError")
          [] main.data.shape = "object" /\ ~main.data.nested_typed ->
                \* RevenueCustomer(**customer), PricingLineItem(**item)
                RaisedOut("ValidationError")
          [] scoring.raised # "none" -> RaisedOut(scoring.raised)
          [] ~Validates(merged) -> RaisedOut("ValidationError")
          [] OTHER -> Returned(merged, failed)

\* analyze_lead: the template is filled by str.replace, and everything from the
\* generator call to LeadAnalysis(**data) is inside try/except Exception
AnalyzeLeadResult(t, r) ==
    IF r.kind \in {"timeout", "error"}
    THEN Returned(DefaultAnalysisData, TRUE)
    ELSE IF Validates(ParseResponse(r))
         THEN \* LeadAnalysis has no pricing_summary: the key is ignored
              Returned([ParseResponse(r) EXCEPT !.pricing_summary = NoPricing], Unusable(r))
         ELSE Returned(DefaultAnalysisData, TRUE)

AnalyzeInputs ==
    [service : {"deal"}, template : Templates, scoring_template : Templates,
     r1 : Responses, r2 : Responses]
    \cup [service : {"lead"}, template : Templates, scoring_template : {"none"},
          r1 : Responses, r2 : {[kind |-> "none", value |-> JsonOther("null")]}]

AnalyzeInit ==
    /\ TokenQuiet
    /\ an_in \in AnalyzeInputs
    /\ an_out = NoResult
    /\ ParseIdle
    /\ cache_enabled = TRUE
    /\ StoreEmpty
    /\ bedrock_configured = TRUE
    /\ EnrichIdle

AnalyzeDeal ==
    /\ an_in.service = "deal"
    /\ ~an_out.done
    /\ an_out' = AnalyzeDealResult(an_in.template, an_in.scoring_template, an_in.r1, an_in.r2)
    /\ UNCHANGED <<tokenVars, req, an_in, response, parse_out, storeVars, enrichVars>>

AnalyzeLead ==
    /\ an_in.service = "lead"
    /\ ~an_out.done
    /\ an_out' = AnalyzeLeadResult(an_in.template, an_in.r1)
    /\ UNCHANGED <<tokenVars, req, an_in, response, parse_out, storeVars, enrichVars>>

AnalyzeNext ==
    \/ AnalyzeDeal
    \/ AnalyzeLead

SpecAnalyze == AnalyzeInit /\ [][AnalyzeNext]_vars

\* C23: one _make_request call sends at most two HTTP requests and causes at
\* most one refresh exchange: a second request is sent only after a 401 on the
\* first and one forced refresh, and a 429 on the first ends the call without
\* a forced refresh or a retry.
C23_OneRefreshOneRetry ==
    \A r \in Requesters :
        req[r].op \in {"record", "contact", "list"} =>
            /\ req[r].sent <= 2
            /\ req[r].posts <= 1
            /\ req[r].forced <= 1
            /\ req[r].sent = 2 => (req[r].first = "401" /\ req[r].forced = 1)
            /\ req[r].first = "429" => (req[r].sent = 1 /\ req[r].forced = 0)

\* C7: every CRM call whose first response is 401 makes one forced refresh, and
\* when that refresh succeeds sends the request once more.
C7_Every401ForcesRefreshAndRetry ==
    \A r \in Requesters :
        (pc[r] = "done" /\ req[r].first = "401") => /\ req[r].forced = 1
                                                    /\ req[r].posts >= 1
                                                    /\ (req[r].result \in {"data", "list", "content"}
                                                          => req[r].sent = 2)

(***************************************************************************)
(* LeadAnalysisCache and DealAnalysisCache: save_analysis and              *)
(* get_cached_data.  Both are synchronous: one call is one step.           *)
(***************************************************************************)

\* the analysis objects and artifact lists the calls are tried with
LeadAnalyses ==
    {[cls |-> "LeadAnalysis", company_name |-> "Acme", fit_score |-> 8, customers |-> <<>>],
     [cls |-> "LeadAnalysis", company_name |-> "Unknown", fit_score |-> DEFAULT_FIT_SCORE,
      customers |-> <<>>]}

DealAnalyses ==
    {[cls |-> "DealAnalysis", company_name |-> "Acme", fit_score |-> 8,
      customers |-> <<[cls |-> "RevenueCustomer", name |-> "BigCo"]>>],
     [cls |-> "DealAnalysis", company_name |-> "Unknown", fit_score |-> DEFAULT_FIT_SCORE,
      customers |-> <<>>]}

Artifacts == {<<>>, <<[id |-> "a1"]>>}

ArtifactArgs == {NoneArg} \cup {ListArg(l) : l \in Artifacts}

AnalysisClass(cache) == IF cache = "deals" THEN "DealAnalysis" ELSE "LeadAnalysis"

\* analysis.model_dump(): the object as a dict, the nested objects as dicts
ModelDump(a) ==
    [company_name |-> a.company_name,
     fit_score |-> a.fit_score,
     customers |-> [i \in DOMAIN a.customers |-> [name |-> a.customers[i].name]]]

\* LeadAnalysis(**data) / DealAnalysis(**data): the dict as an object, the
\* entries of revenue_top_5_customers as RevenueCustomer objects
Construct(cls, d) ==
    [cls |-> cls,
     company_name |-> d.company_name,
     fit_score |-> d.fit_score,
     customers |-> [i \in DOMAIN d.customers |->
                      [cls |-> "RevenueCustomer", name |-> d.customers[i].name]]]

\* json.dumps and json.loads: a value and the text that holds it
JsonDumps(v) == <<"json", v>>

JsonLoads(t) == t[2]

\* x or []
OrEmpty(x) == IF x.some /\ x.list # <<>> THEN x.list ELSE <<>>

\* a writer that keeps the lists of the item already stored when it is given none
NewItem_Merged(k, a, mm, sc, mt, t) ==
    LET kept(name, x) == IF ~x.some /\ store[k].present
                         THEN store[k][name] ELSE <<"json", IF x.some THEN x.list ELSE <<>>>>
    IN [present |-> TRUE,
        attrs |-> IF k = "deal_1"
                  THEN {"marketing_materials", "similar_customers", "meetings"}
                  ELSE {"marketing_materials", "similar_customers"},
        analysis |-> <<"json", [company_name |-> a.company_name, fit_score |-> a.fit_score,
                                customers |-> [i \in DOMAIN a.customers |->
                                                 [name |-> a.customers[i].name]]]>>,
        marketing_materials |-> kept("marketing_materials", mm),
        similar_customers |-> kept("similar_customers", sc),
        meetings |-> IF k = "deal_1" THEN kept("meetings", mt) ELSE <<"json", <<>>>>,
        company_name |-> a.company_name,
        fit_score |-> a.fit_score,
        created_at |-> t,
        updated_at |-> t]

\* a writer that updates the analysis of an item already stored and leaves its
\* lists as they are
NewItem_AnalysisOnly(k, a, mm, sc, mt, t) ==
    LET list(name, x) == IF store[k].present THEN store[k][name]
                         ELSE <<"json", IF x.some THEN x.list ELSE <<>>>>
    IN [present |-> TRUE,
        attrs |-> IF k = "deal_1"
                  THEN {"marketing_materials", "similar_customers", "meetings"}
                  ELSE {"marketing_materials", "similar_customers"},
        analysis |-> <<"json", [company_name |-> a.company_name, fit_score |-> a.fit_score,
                                customers |-> [i \in DOMAIN a.customers |->
                                                 [name |-> a.customers[i].name]]]>>,
        marketing_materials |-> list("marketing_materials", mm),
        similar_customers |-> list("similar_customers", sc),
        meetings |-> IF k = "deal_1" THEN list("meetings", mt) ELSE <<"json", <<>>>>,
        company_name |-> a.company_name,
        fit_score |-> a.fit_score,
        created_at |-> t,
        updated_at |-> t]

\* a created_at that is written once and kept by the later saves
CreatedAt_Kept(k, t) == IF store[k].present THEN store[k].created_at ELSE t

\* "created_at": now, the same value as updated_at
CreatedAt(k, t) == t

\* the item save_analysis puts: the lead cache has no meetings attribute
NewItem(k, a, mm, sc, mt, t) ==
    [present |-> TRUE,
     attrs |-> IF CacheOf(k) = "deals"
               THEN {"marketing_materials", "similar_customers", "meetings"}
               ELSE {"marketing_materials", "similar_customers"},
     analysis |-> JsonDumps(ModelDump(a)),
     marketing_materials |-> JsonDumps(OrEmpty(mm)),
     similar_customers |-> JsonDumps(OrEmpty(sc)),
     meetings |-> IF CacheOf(k) = "deals" THEN JsonDumps(OrEmpty(mt)) ELSE NoJson,
     company_name |-> a.company_name,
     fit_score |-> a.fit_score,
     created_at |-> CreatedAt(k, t),
     updated_at |-> t]

\* a reader that drops the stored list
Attr_Dropped(item, name) == <<>>

\* an attribute that holds the empty string
EmptyText == <<"text", "">>

\* get_cached_data: a list attribute of the item, [] when the item lacks it or
\* holds an empty value
Attr(item, name) ==
    IF name \in item.attrs /\ item[name] # EmptyText THEN JsonLoads(item[name]) ELSE <<>>

\* get_cached_data with the item found: the lead cache returns three values, the
\* deal cache four
ReadItem(k) ==
    [hit |-> TRUE,
     arity |-> IF CacheOf(k) = "deals" THEN 4 ELSE 3,
     analysis |-> Construct(AnalysisClass(CacheOf(k)), JsonLoads(store[k].analysis)),
     marketing_materials |-> Attr(store[k], "marketing_materials"),
     similar_customers |-> Attr(store[k], "similar_customers"),
     meetings |-> IF CacheOf(k) = "deals" THEN Attr(store[k], "meetings") ELSE <<>>]

\* a cache that never finds anything
GetCachedDataResult_Miss(k, fault) == Miss

\* a reader that takes item["marketing_materials"], item["similar_customers"]
\* and item["meetings"] without looking whether they are there: the KeyError
\* or the JSONDecodeError ends in None
GetCachedDataResult_Strict(k, fault) ==
    IF /\ cache_enabled /\ ~fault /\ store[k].present
       /\ \A name \in (IF CacheOf(k) = "deals"
                        THEN {"marketing_materials", "similar_customers", "meetings"}
                        ELSE {"marketing_materials", "similar_customers"}) :
              name \in store[k].attrs /\ store[k][name] # EmptyText
    THEN ReadItem(k) ELSE Miss

\* get_cached_data: None when the cache is disabled, the read fails (fault) or
\* there is no item
GetCachedDataResult(k, fault) ==
    IF cache_enabled /\ ~fault /\ store[k].present THEN ReadItem(k) ELSE Miss

\* the first access of an enabled cache runs ensure_table_exists()
TableChecked(k) ==
    IF cache_enabled THEN [table_checked EXCEPT ![CacheOf(k)] = TRUE] ELSE table_checked

\* every stored part of the item differs between the two
AllPartsDiffer(old, new) ==
    /\ old.analysis # new.analysis
    /\ old.marketing_materials # new.marketing_materials
    /\ old.similar_customers # new.similar_customers
    /\ ("meetings" \in new.attrs) => old.meetings # new.meetings

\* a save that leaves out the analysis returned when the generation failed
SaveAnalysisEffect_NoDefault(k, a, mm, sc, mt, fault, by) ==
    /\ table_checked' = TableChecked(k)
    /\ IF cache_enabled /\ ~fault /\ a.company_name # "Unknown"
       THEN /\ store' = [store EXCEPT ![k] = NewItem(k, a, mm, sc, mt, now)]
            /\ saved' = [saved EXCEPT ![k] =
                            [written |-> TRUE, analysis |-> a, marketing_materials |-> mm,
                             similar_customers |-> sc, meetings |-> mt, by |-> by,
                             replaced |-> FALSE]]
       ELSE UNCHANGED <<store, saved>>

\* save_analysis: True when the cache is enabled and put_item succeeds;
\* put_item replaces the whole item under the key
SaveAnalysisEffect(k, a, mm, sc, mt, fault, by) ==
    /\ table_checked' = TableChecked(k)
    /\ IF cache_enabled /\ ~fault
       THEN /\ store' = [store EXCEPT ![k] = NewItem(k, a, mm, sc, mt, now)]
            /\ saved' = [saved EXCEPT ![k] =
                            [written |-> TRUE, analysis |-> a, marketing_materials |-> mm,
                             similar_customers |-> sc, meetings |-> mt, by |-> by,
                             replaced |-> /\ store[k].present
                                          /\ AllPartsDiffer(store[k],
                                                            NewItem(k, a, mm, sc, mt, now))]]
       ELSE UNCHANGED <<store, saved>>

\* the keys save_analysis is called with directly; web_a is never written
WrittenKeys == {"lead_1", "deal_1"}

SaveAnalysis(k, a, mm, sc, mt, fault) ==
    /\ a.cls = AnalysisClass(CacheOf(k))
    /\ CacheOf(k) = "leads" => mt = NoneArg
    /\ SaveAnalysisEffect(k, a, mm, sc, mt, fault, "save_analysis")
    /\ lastGet' = NoGet
    /\ UNCHANGED <<tokenVars, req, analysisVars, cache_enabled, enrichVars>>

\* update_analysis(id, analysis): save_analysis(id, analysis) with no lists
UpdateAnalysis(k, a, fault) ==
    /\ a.cls = AnalysisClass(CacheOf(k))
    /\ SaveAnalysisEffect(k, a, NoneArg, NoneArg, NoneArg, fault, "update_analysis")
    /\ lastGet' = NoGet
    /\ UNCHANGED <<tokenVars, req, analysisVars, cache_enabled, enrichVars>>

GetCachedData(k, fault) ==
    /\ table_checked' = TableChecked(k)
    /\ lastGet' = [done |-> TRUE, key |-> k, read_ok |-> (cache_enabled /\ ~fault),
                   result |-> GetCachedDataResult(k, fault)]
    /\ UNCHANGED <<tokenVars, req, analysisVars, cache_enabled, store, saved, enrichVars>>

StoreInit ==
    /\ TokenQuiet
    /\ AnalysisIdle
    /\ cache_enabled \in BOOLEAN
    /\ StoreEmpty
    /\ bedrock_configured = TRUE
    /\ EnrichIdle

StoreNext ==
    \/ \E k \in WrittenKeys, a \in LeadAnalyses \cup DealAnalyses, mm \in ArtifactArgs,
          sc \in ArtifactArgs, mt \in ArtifactArgs, fault \in BOOLEAN :
            SaveAnalysis(k, a, mm, sc, mt, fault)
    \/ \E k \in WrittenKeys, a \in LeadAnalyses \cup DealAnalyses, fault \in BOOLEAN :
            UpdateAnalysis(k, a, fault)
    \/ \E k \in CacheKeys, fault \in BOOLEAN : GetCachedData(k, fault)

SpecStore == StoreInit /\ [][StoreNext]_vars

(***************************************************************************)
(* The timestamps of the stored items: saves and updates of the two        *)
(* caches while the clock advances.  The three lists of a save are given   *)
(* the same argument, the timestamps do not depend on them.                *)
(***************************************************************************)
StampNext ==
    \/ Tick
    \/ \E k \in WrittenKeys, a \in LeadAnalyses \cup DealAnalyses, l \in ArtifactArgs,
          fault \in BOOLEAN :
            SaveAnalysis(k, a, l, l, IF CacheOf(k) = "deals" THEN l ELSE NoneArg, fault)
    \/ \E k \in WrittenKeys, a \in LeadAnalyses \cup DealAnalyses, fault \in BOOLEAN :
            UpdateAnalysis(k, a, fault)

SpecStamp == StoreInit /\ [][StampNext]_vars

ListAttrs(k) ==
    IF CacheOf(k) = "deals"
    THEN {"marketing_materials", "similar_customers", "meetings"}
    ELSE {"marketing_materials", "similar_customers"}

\* an item with the list attributes of has, those of empty holding the empty
\* string instead of a list
StoredShape(a, has, empty) ==
    LET value(name) == IF name \in empty THEN EmptyText
                       ELSE IF name \in has THEN JsonDumps(<<[id |-> "a1"]>>) ELSE NoJson
    IN [present |-> TRUE,
        attrs |-> has,
        analysis |-> JsonDumps(ModelDump(a)),
        marketing_materials |-> value("marketing_materials"),
        similar_customers |-> value("similar_customers"),
        meetings |-> value("meetings"),
        company_name |-> a.company_name,
        fit_score |-> a.fit_score,
        created_at |-> 0,
        updated_at |-> 0]

\* the items that may be found under a key: any subset of the list attributes
\* is there, and any of those is empty
StoredShapes(k) ==
    UNION {{StoredShape(a, has, empty) : empty \in SUBSET has} :
             a \in {x \in LeadAnalyses \cup DealAnalyses : x.cls = AnalysisClass(CacheOf(k))},
             has \in SUBSET ListAttrs(k)}

\* the table holds one record written earlier, by any revision of the writer
LegacyInit ==
    /\ TokenQuiet
    /\ AnalysisIdle
    /\ cache_enabled = TRUE
    /\ table_checked = [c \in Caches |-> FALSE]
    /\ \E k \in WrittenKeys : \E item \in StoredShapes(k) :
          store = [j \in CacheKeys |-> IF j = k THEN item ELSE NoItem]
    /\ saved = [k \in CacheKeys |-> NoSave]
    /\ lastGet = NoGet
    /\ bedrock_configured = TRUE
    /\ EnrichIdle

LegacyNext == \E k \in CacheKeys, fault \in BOOLEAN : GetCachedData(k, fault)

SpecLegacy == LegacyInit /\ [][LegacyNext]_vars

\* C27: get_cached_data of a stored record returns the analysis, and for each
\* artifact list the stored list, or the empty list when the record lacks the
\* attribute or holds it empty; it does not return None for that.
C27_OldShapesRead ==
    (lastGet.done /\ lastGet.read_ok /\ store[lastGet.key].present) =>
        LET item == store[lastGet.key]
            r == lastGet.result
            list(name) == IF name \in item.attrs /\ item[name] # EmptyText
                          THEN item[name][2] ELSE <<>>
        IN /\ r.hit
           /\ r.analysis.company_name = item.company_name
           /\ r.analysis.fit_score = item.fit_score
           /\ r.marketing_materials = list("marketing_materials")
           /\ r.similar_customers = list("similar_customers")
           /\ r.meetings = IF CacheOf(lastGet.key) = "deals" THEN list("meetings") ELSE <<>>

\* a deal record without the meetings attribute and with an empty
\* similar_customers attribute was read
C27_Witness ==
    /\ lastGet.done
    /\ lastGet.key = "deal_1"
    /\ lastGet.result.hit
    /\ store["deal_1"].attrs = {"marketing_materials", "similar_customers"}
    /\ store["deal_1"].similar_customers = EmptyText
    /\ lastGet.result.marketing_materials # <<>>
    /\ lastGet.result.similar_customers = <<>>
    /\ lastGet.result.meetings = <<>>

C11_OverwriteIsWhole ==
    \A k \in CacheKeys :
        saved[k].written =>
            LET was == saved[k]
                listOf(x) == IF x.some THEN x.list ELSE <<>>
            IN /\ store[k] = NewItem(k, was.analysis, was.marketing_materials,
                                     was.similar_customers, was.meetings, store[k].updated_at)
               /\ (lastGet.done /\ lastGet.key = k /\ lastGet.read_ok) =>
                     /\ lastGet.result.hit
                     /\ lastGet.result.analysis = was.analysis
                     /\ lastGet.result.marketing_materials = listOf(was.marketing_materials)
                     /\ lastGet.result.similar_customers = listOf(was.similar_customers)
                     /\ lastGet.result.meetings = listOf(was.meetings)
                     /\ (was.by = "update_analysis") =>
                           /\ lastGet.result.marketing_materials = <<>>
                           /\ lastGet.result.similar_customers = <<>>
                           /\ lastGet.result.meetings = <<>>

\* a deal record with lists was overwritten through update_analysis by an
\* analysis differing in every part, and then read back
C11_Witness ==
    /\ saved["deal_1"].replaced
    /\ saved["deal_1"].by = "update_analysis"
    /\ lastGet.done
    /\ lastGet.key = "deal_1"
    /\ lastGet.result.hit

(***************************************************************************)
(* The endpoints get_lead, get_deal and evaluate_website.  A handler runs  *)
(* from one await to the next in one step: first the CRM record (get_lead, *)
(* get_deal), then the attachments, the contact or the scrape.             *)
(***************************************************************************)
\* what the generation step and the two searches after it come back with: an
\* analysis with materials and similar customers, or the default analysis with
\* neither
Generations ==
    {[analysis |-> [cls |-> "LeadAnalysis", company_name |-> "Acme", fit_score |-> 8,
                    customers |-> <<>>],
      marketing_materials |-> <<[id |-> "a1"]>>,
      similar_customers |-> <<[id |-> "a1"]>>],
     [analysis |-> [cls |-> "LeadAnalysis", company_name |-> "Unknown",
                    fit_score |-> DEFAULT_FIT_SCORE, customers |-> <<>>],
      marketing_materials |-> <<>>,
      similar_customers |-> <<>>]}

KeyOf(kind) ==
    CASE kind = "lead" -> "lead_1"
      [] kind = "deal" -> "deal_1"
      [] OTHER -> "web_a"

\* another handler is between the start and the end of a request for the key
InFlight(h, k) ==
    \E g \in Handlers \ {h} : rq[g].key = k /\ rq[g].stage \in {"fetch", "gather", "lookup"}

\* the cache lookup of a request: a hit ends the request, a miss goes on to
\* gather the inputs of the generation
CacheCheck(h, q, fault) ==
    LET r == GetCachedDataResult(q.key, fault) IN
        /\ table_checked' = TableChecked(q.key)
        /\ rq' = [rq EXCEPT ![h] =
                    IF r.hit
                    THEN [q EXCEPT !.stage = "done", !.status = 200, !.from_cache = TRUE]
                    ELSE [q EXCEPT !.stage = "gather"]]

\* the request ends with the given status
Respond(h, q, status) ==
    /\ rq' = [rq EXCEPT ![h] = [q EXCEPT !.stage = "done", !.status = status]]
    /\ UNCHANGED table_checked

\* a request arrives.  get_lead and get_deal first await the CRM record;
\* evaluate_website looks into the cache at once
Request(h, kind, mode, fault) ==
    /\ rq[h].stage = "idle"
    /\ requests < MaxRequests
    /\ kind = "web" => mode = "normal"
    /\ kind # "web" => ~fault
    /\ requests' = requests + 1
    /\ LET k == KeyOf(kind)
           q == [NoRq EXCEPT !.kind = kind, !.key = k, !.mode = mode]
       IN /\ hist' = [hist EXCEPT ![k] =
                        [@ EXCEPT !.refreshed = @ \/ (mode = "refresh"),
                                  !.overlapped = @ \/ InFlight(h, k),
                                  !.faulted = @ \/ (kind = "web" /\ cache_enabled /\ fault)]]
          /\ IF kind = "web"
             THEN CacheCheck(h, q, fault)
             ELSE /\ rq' = [rq EXCEPT ![h] = [q EXCEPT !.stage = "fetch"]]
                  /\ UNCHANGED table_checked
    /\ UNCHANGED <<tokenVars, req, analysisVars, cache_enabled, store, saved, lastGet,
                   bedrock_configured>>

\* get_lead / get_deal: the CRM record has arrived, or the fetch has failed:
\* ZohoAPIException (502) and ZohoTokenException (503) are HTTPExceptions and
\* pass through the handler
FetchDone(h, outcome, fault) ==
    /\ rq[h].stage = "fetch"
    /\ LET q == rq[h]
           lookup == outcome = "ok" /\ q.mode = "normal" /\ bedrock_configured
                     /\ cache_enabled
       IN /\ ~lookup => ~fault
          /\ hist' = [hist EXCEPT ![q.key].faulted = @ \/ (lookup /\ fault)]
          /\ CASE outcome = "error" -> Respond(h, q, 502)
               [] outcome = "credential" -> Respond(h, q, 503)
               [] outcome = "not_found" -> Respond(h, q, 404)
               [] q.mode = "skip" -> Respond(h, q, 200)
               [] ~bedrock_configured -> Respond(h, q, 200)
               [] lookup -> CacheCheck(h, q, fault)
               [] OTHER -> /\ rq' = [rq EXCEPT ![h] = [q EXCEPT !.stage = "gather"]]
                           /\ UNCHANGED table_checked
    /\ UNCHANGED <<tokenVars, req, analysisVars, cache_enabled, store, saved, lastGet,
                   bedrock_configured, requests>>

\* the side-source failure a request has seen, once one more source came back
SideFailure(q, outcome) ==
    IF outcome = "credential" \/ q.side_failure = "credential" THEN "credential"
    ELSE IF outcome # "ok" \/ q.side_failure = "collaborator" THEN "collaborator"
    ELSE "none"

\* a pipeline that writes the cache before it generates
GenerateSteps_SaveFirst(saves) ==
    (IF saves THEN <<"save">> ELSE <<>>) \o <<"call1">>

\* the steps from the generation to the cache write, in the order the handler
\* runs them: analyze_lead issues one generation call
GenerateSteps(saves) ==
    <<"call1">> \o (IF saves THEN <<"save">> ELSE <<>>)

\* get_lead, evaluate_website: analyze_lead, the two searches and save_analysis.
\* A failed search leaves its list empty
Generate(h, q, search, g, fault) ==
    LET saves == q.kind = "web" \/ cache_enabled IN
        /\ search = "fail" => g.marketing_materials = <<>> /\ g.similar_customers = <<>>
        /\ hist' = [hist EXCEPT ![q.key] =
                       [@ EXCEPT !.gens = @ + 1,
                                 !.faulted = @ \/ (cache_enabled /\ fault)]]
        /\ SaveAnalysisEffect(q.key, g.analysis, ListArg(g.marketing_materials),
                              ListArg(g.similar_customers), NoneArg, fault, "save_analysis")
        /\ rq' = [rq EXCEPT ![h] =
                    [q EXCEPT !.stage = "done", !.status = 200, !.generated = TRUE,
                              !.steps = @ \o GenerateSteps(saves),
                              !.side_failure = SideFailure(q, search)]]

\* get_deal calls analyze_deal(deal_data=, attachment_text=, meeting_text=),
\* which analyze_deal does not accept: the TypeError becomes a 500 before
\* anything is generated
AnalyzeDealCall(h, q) ==
    /\ rq' = [rq EXCEPT ![h] = [q EXCEPT !.stage = "done", !.status = 500]]
    /\ UNCHANGED <<hist, table_checked, store, saved>>

\* the first side-source has come back.  get_lead, get_deal: the attachments
\* (get_*_attachments returns [] on any exception, a credential error
\* included); get_deal goes on to the contact when Fireflies is enabled and
\* the deal names one.  evaluate_website: the scrape, which ends the request
\* with 422 when it failed, else the page text is fetched
GatherDone(h, outcome, contact, search, g, fault) ==
    /\ rq[h].stage = "gather"
    /\ LET q == rq[h]
           generates == q.kind = "lead"
           source == IF q.kind = "web" THEN "scrape" ELSE "attachments"
           q1 == [q EXCEPT !.steps = Append(@, source),
                           !.side_failure = SideFailure(q, outcome)]
       IN /\ ~(generates /\ cache_enabled) => ~fault
          /\ ~generates => g.analysis.company_name = "Unknown" /\ search = "ok"
          /\ q.kind = "web" => outcome # "credential"
          /\ q.kind # "deal" => ~contact
          /\ CASE q.kind = "lead" -> Generate(h, q1, search, g, fault)
               [] q.kind = "deal" /\ contact ->
                     /\ rq' = [rq EXCEPT ![h] = [q1 EXCEPT !.stage = "lookup"]]
                     /\ UNCHANGED <<hist, table_checked, store, saved>>
               [] q.kind = "deal" /\ ~contact -> AnalyzeDealCall(h, q1)
               [] q.kind = "web" /\ outcome = "ok" ->
                     /\ rq' = [rq EXCEPT ![h] = [q1 EXCEPT !.stage = "lookup"]]
                     /\ UNCHANGED <<hist, table_checked, store, saved>>
               [] OTHER ->
                     /\ rq' = [rq EXCEPT ![h] = [q1 EXCEPT !.stage = "done", !.status = 422]]
                     /\ UNCHANGED <<hist, table_checked, store, saved>>
    /\ UNCHANGED <<tokenVars, req, analysisVars, cache_enabled, lastGet, bedrock_configured,
                   requests>>

\* the second side-source has come back.  get_deal: the contact; with its
\* email the meeting notes are looked up through
\* fireflies_service.get_meetings_and_notes_for_email, which FirefliesService
\* does not have (AttributeError, caught); then analyze_deal is called.
\* evaluate_website: the page text; then the generation runs
LookupDone(h, outcome, search, g, fault) ==
    /\ rq[h].stage = "lookup"
    /\ LET q == rq[h]
           generates == q.kind = "web"
           q1 == IF q.kind = "web"
                 THEN [q EXCEPT !.steps = Append(@, "page_text"),
                                !.side_failure = SideFailure(q, outcome)]
                 ELSE [q EXCEPT !.steps = @ \o (IF outcome = "ok"
                                                THEN <<"contact", "meetings">>
                                                ELSE <<"contact">>),
                                !.side_failure = SideFailure(q, IF outcome = "ok"
                                                                THEN "error" ELSE outcome)]
       IN /\ ~(generates /\ cache_enabled) => ~fault
          /\ ~generates => g.analysis.company_name = "Unknown" /\ search = "ok"
          /\ q.kind = "web" => outcome # "credential"
          /\ IF generates
             THEN Generate(h, q1, search, g, fault)
             ELSE AnalyzeDealCall(h, q1)
    /\ UNCHANGED <<tokenVars, req, analysisVars, cache_enabled, lastGet, bedrock_configured,
                   requests>>

\* the response is sent; the handler is free for the next request
SendResponse(h) ==
    /\ rq[h].stage = "done"
    /\ rq' = [rq EXCEPT ![h] = NoRq]
    /\ UNCHANGED <<tokenVars, req, analysisVars, storeVars, hist, bedrock_configured,
                   requests>>

EnrichInit ==
    /\ TokenQuiet
    /\ AnalysisIdle
    /\ cache_enabled \in BOOLEAN
    /\ StoreEmpty
    /\ bedrock_configured \in BOOLEAN
    /\ EnrichIdle

\* two handlers serve requests concurrently; the attachments, the contact, the
\* page text and the searches answer, the CRM record and the scrape may fail
EnrichNext ==
    \/ \E h \in Handlers, kind \in {"lead", "deal", "web"},
          mode \in {"normal", "refresh", "skip"}, fault \in BOOLEAN :
            Request(h, kind, mode, fault)
    \/ \E h \in Handlers, outcome \in {"ok", "not_found", "error"}, fault \in BOOLEAN :
            FetchDone(h, outcome, fault)
    \/ \E h \in Handlers, g \in Generations, fault \in BOOLEAN :
          \E outcome \in (IF rq[h].kind = "web" THEN {"ok", "error"} ELSE {"ok"}) :
            GatherDone(h, outcome, FALSE, "ok", g, fault)
    \/ \E h \in Handlers, g \in Generations, fault \in BOOLEAN :
            LookupDone(h, "ok", "ok", g, fault)
    \/ \E h \in Handlers : SendResponse(h)

SpecEnrich == EnrichInit /\ [][EnrichNext]_vars

\* one handler serves one request after the other; every outbound call of the
\* request may fail, with a collaborator error or a credential error
OneHandler == "h1"

RequestNext ==
    \/ \E kind \in {"lead", "deal", "web"}, mode \in {"normal", "refresh", "skip"},
          fault \in BOOLEAN :
            Request(OneHandler, kind, mode, fault)
    \/ \E outcome \in {"ok", "not_found", "error", "credential"}, fault \in BOOLEAN :
            FetchDone(OneHandler, outcome, fault)
    \/ \E outcome \in {"ok", "error", "credential"}, contact \in BOOLEAN,
          search \in {"ok", "fail"}, g \in Generations, fault \in BOOLEAN :
            GatherDone(OneHandler, outcome, contact, search, g, fault)
    \/ \E outcome \in {"ok", "error", "credential"}, search \in {"ok", "fail"},
          g \in Generations, fault \in BOOLEAN :
            LookupDone(OneHandler, outcome, search, g, fault)
    \/ SendResponse(OneHandler)

SpecRequest == EnrichInit /\ [][RequestNext]_vars

\* the position of a step in the steps of a request, 0 when it has not run
StepIndex(steps, name) ==
    IF \E i \in 1 .. Len(steps) : steps[i] = name
    THEN CHOOSE i \in 1 .. Len(steps) : steps[i] = name
    ELSE 0

SideSteps == {"attachments", "contact", "meetings", "scrape", "page_text"}

\* the side-sources a generation of the kind waits for
AwaitedSteps(kind) ==
    CASE kind = "lead" -> {"attachments"}
      [] kind = "deal" -> {"attachments"}
      [] kind = "web" -> {"scrape", "page_text"}
      [] OTHER -> {}

C18_OnlyCredentialFailures ==
    \A h \in Handlers : rq[h].stage = "done" => rq[h].status \in {200, 503}

\* C19: a request in which an outbound CRM call raised a credential error
\* ends with service-unavailable (503); the error is not replaced by an empty
\* value.
C19_CredentialErrorSurfaced ==
    \A h \in Handlers :
        (rq[h].stage = "done" /\ rq[h].side_failure = "credential") => rq[h].status = 503

\* C20: a request in which a side-source failed runs the generation step and
\* ends with an enriched response.
C20_SideFailureRecovered ==
    \A h \in Handlers :
        (rq[h].stage = "done" /\ rq[h].side_failure = "collaborator") =>
            rq[h].status = 200 /\ rq[h].generated

\* C9: for every record id no request for which set refresh_analysis, the
\* generation step has run at most once, whatever the sequence or interleaving
\* of the requests.
C9_GeneratedAtMostOnce ==
    \A k \in CacheKeys : ~hist[k].refreshed => hist[k].gens <= 1

\* C9 (amended): with the cache enabled and its reads and writes succeeding, for
\* every record id whose requests did not overlap and did not set
\* refresh_analysis the generation step has run at most once, and a request
\* that ends normally after it is served from the cache.
C9_GeneratedAtMostOncePerSequence ==
    \A k \in CacheKeys :
        (cache_enabled /\ ~hist[k].refreshed /\ ~hist[k].overlapped /\ ~hist[k].faulted) =>
            /\ hist[k].gens <= 1
            /\ \A h \in Handlers :
                  (/\ rq[h].key = k
                   /\ rq[h].stage = "done"
                   /\ rq[h].status = 200
                   /\ rq[h].mode = "normal"
                   /\ hist[k].gens = 1
                   /\ ~rq[h].generated) => rq[h].from_cache

\* a later request for a record generated once was served from the cache
C9_Witness ==
    \E k \in CacheKeys, h \in Handlers :
        /\ cache_enabled /\ ~hist[k].refreshed /\ ~hist[k].overlapped /\ ~hist[k].faulted
        /\ hist[k].gens = 1
        /\ rq[h].key = k /\ rq[h].stage = "done" /\ rq[h].from_cache

\* C26: when two runs for the same id have generated and saved, the record
\* read afterwards is the result of one run, the one whose save was stored
\* last: the analysis and every artifact list come from that single run.
C26_LastWriterWinsWhole ==
    \A k \in CacheKeys :
        (cache_enabled /\ hist[k].gens >= 2 /\ saved[k].written) =>
            LET r == GetCachedDataResult(k, FALSE) IN
                /\ r.hit
                /\ r.analysis = saved[k].analysis
                /\ r.marketing_materials = saved[k].marketing_materials.list
                /\ r.similar_customers = saved[k].similar_customers.list
                /\ \E g \in Generations :
                      /\ r.analysis = g.analysis
                      /\ r.marketing_materials = g.marketing_materials
                      /\ r.similar_customers = g.similar_customers

\* two get_lead requests overlapped, both generated, and the save of the
\* second replaced every part of the record the first had stored
C26_Witness ==
    /\ cache_enabled
    /\ hist["lead_1"].overlapped
    /\ ~hist["lead_1"].refreshed
    /\ hist["lead_1"].gens = 2
    /\ saved["lead_1"].replaced

\* C8: analyze_deal / analyze_lead never raises: whatever the generator does and
\* whatever the prompt templates are, the call returns an analysis that passes
\* its schema, and when something failed inside, the analysis has a reason in
\* notes and confidence_level "Low".
C8_AnalyzeNeverRaises ==
    an_out.done =>
        /\ an_out.raised = "none"
        /\ an_out.valid
        /\ an_out.failed => (an_out.has_reason /\ an_out.confidence_level = "Low")

\* C12: when the generator's answers are usable JSON objects and the prompt
\* templates format, whatever fit_score the generator wrote (zero, above 10),
\* analyze returns (it does not raise) an analysis whose fit_score is that value
\* clamped into [1,10], with the rest of the generated analysis kept.
C12_FitScoreClamped ==
    LET scored == IF an_in.service = "deal" THEN an_in.r2 ELSE an_in.r1
        fs == scored.value.fit_score
        clamped == IF fs < FIT_SCORE_MIN THEN FIT_SCORE_MIN
                   ELSE IF fs > FIT_SCORE_MAX THEN FIT_SCORE_MAX ELSE fs
    IN (/\ an_out.done
        /\ FormatOutcome(an_in.template) = "ok"
        /\ an_in.service = "deal" => FormatOutcome(an_in.scoring_template) = "ok"
        /\ ~Unusable(an_in.r1)
        /\ ~Unusable(scored)
        /\ scored.value.has_scoring) =>
            /\ an_out.raised = "none"
            /\ an_out.fit_score = clamped
            /\ an_out.confidence_level = an_in.r1.value.confidence_level

C25_MergeOverwritesScoringOnly ==
    (an_out.done /\ an_out.raised = "none" /\ an_in.service = "deal") =>
        LET main == IF an_in.r1.kind \in {"json", "embedded_json"}
                    THEN an_in.r1.value ELSE DefaultAnalysisData
            fell_back == \/ an_in.r2.kind \notin {"json", "embedded_json"}
                         \/ ~an_in.r2.value.has_scoring
        IN /\ an_out.confidence_level = main.confidence_level
           /\ an_out.has_reason = main.has_reason
           /\ an_out.pricing = ConvertPricing(main.pricing_summary)
           /\ an_out.fit_score = IF fell_back THEN DEFAULT_FIT_SCORE
                                 ELSE an_in.r2.value.fit_score

\* analyze_deal returned after the scoring call timed out: the main call's
\* fit_score was replaced by the default, its confidence level was kept
C25_Witness ==
    /\ an_out.done
    /\ an_out.raised = "none"
    /\ an_in.service = "deal"
    /\ an_in.r1.kind = "json"
    /\ an_in.r1.value.fit_score = FIT_SCORE_MAX
    /\ an_in.r2.kind = "timeout"
    /\ an_out.fit_score = DEFAULT_FIT_SCORE
    /\ an_out.confidence_level = "High"

\* C15: when every generation call fails (timeout or error), analyze_deal /
\* analyze_lead returns an analysis with confidence_level "Low", a note that
\* tells of the failure, and fit_score 5.
C15_DegradedResult ==
    (/\ an_out.done
     /\ an_in.r1.kind \in {"timeout", "error"}
     /\ an_in.service = "deal" => an_in.r2.kind \in {"timeout", "error"}) =>
        /\ an_out.raised = "none"
        /\ an_out.valid
        /\ an_out.confidence_level = "Low"
        /\ an_out.has_reason
        /\ an_out.fit_score = DEFAULT_FIT_SCORE

\* C16: in analyze_deal, when one of the two generation calls fails (generator
\* error, or an answer that does not parse at all) and the other returns a
\* usable answer, the request is not aborted: with the main call failed the
\* result is the default analysis carrying the scoring call's score, with the
\* scoring call failed it is the main call's analysis with the default score.
C16_FailureIsLocal ==
    LET failed(r) == r.kind \in {"timeout", "error", "empty", "non_json"}
        good(r) == ~Unusable(r) /\ r.value.has_scoring
    IN (an_out.done /\ an_in.service = "deal") =>
          /\ (failed(an_in.r1) /\ good(an_in.r2)) =>
                /\ an_out.raised = "none"
                /\ an_out.fit_score = an_in.r2.value.fit_score
                /\ an_out.confidence_level = "Low"
                /\ an_out.has_reason
          /\ (good(an_in.r1) /\ failed(an_in.r2)) =>
                /\ an_out.raised = "none"
                /\ an_out.fit_score = DEFAULT_FIT_SCORE
                /\ an_out.confidence_level = an_in.r1.value.confidence_level
                /\ an_out.pricing = ConvertPricing(an_in.r1.value.pricing_summary)

(***************************************************************************)
(* DealAnalysisService._parse_response and _repair_truncated_json.  A text *)
(* is a sequence of characters.                                            *)
(***************************************************************************)
\* JSON objects a generator writes: nested arrays and objects, numbers, the
\* literals true and null, a string with an escaped quote
Documents ==
    [nested |->
        <<"{", "\"", "a", "\"", ":", " ", "1", "2", ",", " ", "\"", "b", "\"", ":", " ",
          "[", "t", "r", "u", "e", ",", " ", "{", "\"", "c", "\"", ":", " ", "-", "1", "}",
          "]", ",", " ", "\"", "d", "\"", ":", " ", "\"", "x", "\"", "}">>,
     deep |->
        <<"{", "\"", "k", "\"", ":", " ", "n", "u", "l", "l", ",", " ", "\"", "m", "\"",
          ":", " ", "{", "\"", "n", "\"", ":", " ", "[", "1", ",", " ", "2", "]", "}", "}">>,
     escaped |->
        <<"{", "\"", "s", "\"", ":", " ", "\"", "q", "\\", "\"", "z", "\"", ",", " ", "\"",
          "t", "\"", ":", " ", "t", "r", "u", "e", "}">>]

\* the responses: a document cut after any number of its characters
TruncatedResponses ==
    UNION {{[doc |-> d, offset |-> n, text |-> SubSeq(Documents[d], 1, n)] :
                n \in 0 .. Len(Documents[d])} : d \in DOMAIN Documents}

Digits == {"0", "1", "2", "3", "4", "5", "6", "7", "8", "9"}

\* the character at a position, "" past the end
At(t, i) == IF i \in 1 .. Len(t) THEN t[i] ELSE ""

RECURSIVE SkipWs(_, _)
RECURSIVE ScanString(_, _)
RECURSIVE ScanDigits(_, _)
RECURSIVE ParseValue(_, _)
RECURSIVE ParseMembers(_, _)
RECURSIVE ParseElements(_, _)

\* json.loads, the scanner: each operator takes the position it starts at and
\* gives the position after what it read, 0 when the text is not JSON there
SkipWs(t, i) == IF At(t, i) = " " THEN SkipWs(t, i + 1) ELSE i

\* from after the opening quote to after the closing one
ScanString(t, i) ==
    CASE At(t, i) = "" -> 0
      [] At(t, i) = "\"" -> i + 1
      [] At(t, i) = "\\" -> IF At(t, i + 1) \in {"\"", "\\"} THEN ScanString(t, i + 2) ELSE 0
      [] OTHER -> ScanString(t, i + 1)

ScanDigits(t, i) == IF At(t, i) \in Digits THEN ScanDigits(t, i + 1) ELSE i

\* an integer: an optional sign, then 0 or digits not starting with 0
ParseNumber(t, i) ==
    LET j == IF At(t, i) = "-" THEN i + 1 ELSE i
        k == ScanDigits(t, j)
    IN IF k = j THEN 0
       ELSE IF At(t, j) = "0" THEN j + 1
       ELSE k

ParseLiteral(t, i, word) ==
    IF i + Len(word) - 1 <= Len(t) /\ SubSeq(t, i, i + Len(word) - 1) = word
    THEN i + Len(word)
    ELSE 0

ParseValue(t, i) ==
    CASE At(t, i) = "{" ->
            LET j == SkipWs(t, i + 1) IN
                IF At(t, j) = "}" THEN j + 1 ELSE ParseMembers(t, j)
      [] At(t, i) = "[" ->
            LET j == SkipWs(t, i + 1) IN
                IF At(t, j) = "]" THEN j + 1 ELSE ParseElements(t, j)
      [] At(t, i) = "\"" -> ScanString(t, i + 1)
      [] At(t, i) = "-" \/ At(t, i) \in Digits -> ParseNumber(t, i)
      [] At(t, i) = "t" -> ParseLiteral(t, i, <<"t", "r", "u", "e">>)
      [] At(t, i) = "n" -> ParseLiteral(t, i, <<"n", "u", "l", "l">>)
      [] OTHER -> 0

\* "key": value, then a comma and more members, or the closing brace
ParseMembers(t, i) ==
    IF At(t, i) # "\"" THEN 0
    ELSE LET k == ScanString(t, i + 1)
             c == SkipWs(t, k)
             v == ParseValue(t, SkipWs(t, c + 1))
             e == SkipWs(t, v)
         IN IF k = 0 \/ At(t, c) # ":" \/ v = 0 THEN 0
            ELSE IF At(t, e) = "," THEN ParseMembers(t, SkipWs(t, e + 1))
            ELSE IF At(t, e) = "}" THEN e + 1
            ELSE 0

\* value, then a comma and more elements, or the closing bracket
ParseElements(t, i) ==
    LET v == ParseValue(t, i)
        e == SkipWs(t, v)
    IN IF v = 0 THEN 0
       ELSE IF At(t, e) = "," THEN ParseElements(t, SkipWs(t, e + 1))
       ELSE IF At(t, e) = "]" THEN e + 1
       ELSE 0

\* json.loads(text) succeeds
JsonParses(t) ==
    LET v == ParseValue(t, SkipWs(t, 1))
    IN v # 0 /\ SkipWs(t, v) = Len(t) + 1

\* str.find / str.rfind(ch, 0, end): the index from 0, or -1
Find(t, ch) ==
    IF \E i \in 1 .. Len(t) : t[i] = ch
    THEN (CHOOSE i \in 1 .. Len(t) : t[i] = ch /\ \A j \in 1 .. i - 1 : t[j] # ch) - 1
    ELSE -1

RFind(t, ch, end) ==
    IF \E i \in 1 .. end : t[i] = ch
    THEN (CHOOSE i \in 1 .. end : t[i] = ch /\ \A j \in i + 1 .. end : t[j] # ch) - 1
    ELSE -1

RECURSIVE RStrip(_)
RECURSIVE RStripCommas(_)
RECURSIVE CloseOpeners(_, _)

\* str.rstrip() and str.rstrip(',')
RStrip(t) == IF t # <<>> /\ t[Len(t)] = " " THEN RStrip(SubSeq(t, 1, Len(t) - 1)) ELSE t

RStripCommas(t) ==
    IF t # <<>> /\ t[Len(t)] = "," THEN RStripCommas(SubSeq(t, 1, Len(t) - 1)) ELSE t

EndsWith(t, ch) == t # <<>> /\ t[Len(t)] = ch

DropLast(t) == SubSeq(t, 1, Len(t) - 1)

\* _repair_truncated_json, the loop over the characters: the open brackets and
\* braces, and whether the text ends inside a string
ScanOpeners(text) ==
    LET st[i \in 0 .. Len(text)] ==
            IF i = 0
            THEN [stack |-> <<>>, in_string |-> FALSE, escape_next |-> FALSE]
            ELSE LET p == st[i - 1]
                     char == text[i]
                     top == IF p.stack = <<>> THEN "" ELSE p.stack[Len(p.stack)]
                 IN CASE p.escape_next -> [p EXCEPT !.escape_next = FALSE]
                      [] ~p.escape_next /\ char = "\\" -> [p EXCEPT !.escape_next = TRUE]
                      [] ~p.escape_next /\ char = "\"" -> [p EXCEPT !.in_string = ~@]
                      [] OTHER ->
                           IF p.in_string THEN p
                           ELSE IF char \in {"{", "["}
                                THEN [p EXCEPT !.stack = Append(@, char)]
                           ELSE IF (char = "}" /\ top = "{") \/ (char = "]" /\ top = "[")
                                THEN [p EXCEPT !.stack = DropLast(@)]
                           ELSE p
    IN st[Len(text)]

\* _repair_truncated_json, closing one open brace: a trailing comma and a
\* trailing "key": are removed first
CloseObject(truncated) ==
    LET a == RStrip(truncated)
        b == IF EndsWith(a, ",") THEN DropLast(a) ELSE a
        last_quote == RFind(b, "\"", Len(b) - 1)
        second_last_quote == RFind(b, "\"", last_quote)
        c == IF EndsWith(b, ":") /\ last_quote > 0 /\ second_last_quote >= 0
             THEN RStripCommas(RStrip(SubSeq(b, 1, second_last_quote)))
             ELSE b
    IN Append(c, "}")

\* _repair_truncated_json, closing one open bracket
CloseArray(truncated) ==
    LET a == RStrip(truncated)
        b == IF EndsWith(a, ",") THEN DropLast(a) ELSE a
    IN Append(b, "]")

\* for opener in reversed(stack)
CloseOpeners(truncated, stack) ==
    IF stack = <<>> THEN truncated
    ELSE CloseOpeners(IF stack[Len(stack)] = "{" THEN CloseObject(truncated)
                      ELSE CloseArray(truncated),
                      DropLast(stack))

\* _repair_truncated_json
RepairTruncatedJson(json_text) ==
    LET text == RStrip(json_text)
        sc == ScanOpeners(text)
    IN IF sc.stack = <<>> THEN text
       ELSE CloseOpeners(IF sc.in_string THEN Append(text, "\"") ELSE text, sc.stack)

\* _parse_response: the text itself, the text from the first { to the last },
\* the repaired text from the first {, or the default data
ParseResponseText(text) ==
    LET start == Find(text, "{")
        end == RFind(text, "}", Len(text)) + 1
        repaired == IF start # -1
                    THEN RepairTruncatedJson(SubSeq(text, start + 1, Len(text)))
                    ELSE <<>>
        step == IF JsonParses(text) THEN 1
                ELSE IF start # -1 /\ end > start /\ JsonParses(SubSeq(text, start + 1, end))
                     THEN 2
                ELSE IF start # -1 /\ repaired # <<>> /\ JsonParses(repaired) THEN 3
                ELSE 0
    IN [done |-> TRUE, step |-> step, repaired |-> repaired,
        repaired_parses |-> JsonParses(repaired)]

ParseInit ==
    /\ TokenQuiet
    /\ an_in = NoInput
    /\ an_out = NoResult
    /\ response \in TruncatedResponses
    /\ parse_out = NoParse
    /\ cache_enabled = TRUE
    /\ StoreEmpty
    /\ bedrock_configured = TRUE
    /\ EnrichIdle

\* one call of _parse_response(response)
ParseResponseCall ==
    /\ ~parse_out.done
    /\ parse_out' = ParseResponseText(response.text)
    /\ UNCHANGED <<tokenVars, req, an_in, an_out, response, storeVars, enrichVars>>

ParseNext == ParseResponseCall

SpecParse == ParseInit /\ [][ParseNext]_vars

\* C14: for every JSON object and every truncation offset that falls outside a
\* string literal (after a key without its colon, after a colon, after a comma,
\* in the middle of a number or of a literal), the text
\* _repair_truncated_json makes of the truncated text parses as JSON.
C14_RepairedTextParses ==
    LET t == response.text
        quoted[i \in 0 .. Len(t)] ==
            IF i = 0 THEN [in_string |-> FALSE, escaped |-> FALSE]
            ELSE IF quoted[i - 1].escaped THEN [in_string |-> TRUE, escaped |-> FALSE]
            ELSE IF t[i] = "\"" THEN [in_string |-> ~quoted[i - 1].in_string, escaped |-> FALSE]
            ELSE [in_string |-> quoted[i - 1].in_string,
                  escaped |-> quoted[i - 1].in_string /\ t[i] = "\\"]
    IN (parse_out.done /\ response.offset >= 1 /\ ~quoted[Len(t)].in_string) =>
           parse_out.repaired_parses

\* C24: when the text is cut inside a string literal, a value or a key, the
\* repair closes the string and the open structures, the result parses, and it
\* keeps the text before the cut, so every key/value pair completed before the
\* cut is in it.
C24_CutInsideStringRepaired ==
    LET t == response.text
        sc == ScanOpeners(t)
        r == parse_out.repaired
    IN (parse_out.done /\ sc.stack # <<>> /\ sc.in_string) =>
           /\ parse_out.repaired_parses
           /\ Len(r) > Len(t)
           /\ SubSeq(r, 1, Len(t)) = t

====
